---- MODULE Spec2Model ----
(***************************************************************************)
(* A model of gymwipe's schedule classes (TDMASchedule, CSMASchedule and   *)
(* their byte-length encoders), of the round-robin TDMA scheduler, of the  *)
(* attenuation-model factory and the transmission list of a frequency      *)
(* band, of gates and their listeners, of the physical layer SimplePhy,    *)
(* of the TDMA MAC layers of sensors, actuators and gateways, of the polled *)
(* MAC protocol of SimpleMac and SimpleRrmMac, of the MAC address          *)
(* generators, of the gateway process with the environment's episode     *)
(* and simulation-done callbacks, of the joined attenuation model, of the  *)
(* cache of Mcs.maxCorrectableBer, and of the counter-traffic environment. *)
(*                                                                         *)
(* Each component has a variable of its own and a specification of its     *)
(* own; a networking component is a record held in one variable, which is  *)
(* None in the specifications of the other components.                     *)
(*                                                                         *)
(* Python values are modelled as follows.                                  *)
(*   - None is the empty tuple.                                            *)
(*   - A MAC address (bytes) is <<"bytes", name>>; its text form           *)
(*     (bytes.__str__) is <<"str", name>>, which never equals the bytes    *)
(*     object, as in Python.                                               *)
(*   - The text form of an integer is its tuple of decimal digits.         *)
(*   - A string made by " ".join(...) is the tuple of its words, so        *)
(*     str.split(" ") returns that tuple (no word here contains a space).  *)
(***************************************************************************)
EXTENDS Integers, Sequences, FiniteSets, TLC

\* ------------------------------------------------------------------ bounds

\* Longest action list handed to a TDMASchedule.
MaxSlots == 4
\* Number of MAC addresses action lists are drawn from.
NumMacs == 2
\* Longest (device, probability) list handed to a CSMASchedule.
MaxPairs == 3
\* Number of devices of a round-robin scheduler and of a frequency band.
NumDevices == 3
\* Largest schedule length (timeslots) of a round-robin scheduler.
MaxTimeslots == 3
\* Largest number of slots a round-robin scheduler generates in one run.
MaxTotalSlots == 8
\* Number of simulated-time ticks in one TDMA time slot (TIMESLOT_LENGTH).
TicksPerSlot == 2
\* Largest gateway clock stamped on a schedule packet, in ticks.
MaxClock == 2
\* Longest action list of a schedule sent to a sensor or actuator MAC.
MaxMacSlots == 3
\* Number of packets an actuator MAC receives in one run.
MaxActuatorPackets == 3
\* Number of Gate objects.
NumGates == 2
\* Largest number of port connections made in one run.
MaxConnections == 2
\* Last tick of simulated time on a frequency band.
MaxTime == 4
\* Longest duration of a transmission, in ticks.
MaxDuration == 3
\* Largest number of transmissions started on a frequency band in one run.
MaxTransmissions == 3
\* Largest number of transmissions of other devices a physical layer sees.
MaxSensed == 2
\* Largest number of bit errors, in half bits, that one interval of constant
\* received power adds to a reception.
MaxErrorStep == 1
\* Largest number of attenuation changes during one run of a physical layer.
MaxAttenuationChanges == 1
\* Simulated time a generator listener takes to handle one message, in ticks.
HandlerTicks == 3
\* Largest number of messages sent to the gate of the listeners.
MaxMessages == 3
\* Last tick of simulated time of a run of the listeners.
MaxListenerTime == 9
\* Largest number of RECEIVE commands sent to a SimpleMac in one run.
MaxReceives == 2
\* Longest duration of a RECEIVE command, in ticks.
MaxReceiveDuration == 2
\* Largest number of packets the physical layer hands to a SimpleMac in one run.
MaxArrivals == 2
\* Largest number of packets the transport layer submits to a SimpleMac.
MaxSubmitted == 2
\* Largest number of time slots granted by one announcement.
MaxGrantSlots == 2
\* Longest transmission time of a packet, in ticks.
MaxTxTicks == 2
\* Number of packets each device submits for its peer under the polled protocol.
MaxPolledPackets == 2
\* Transmission time of an announcement of the resource manager, in ticks.
AnnouncementTicks == 1
\* Largest header type (NCSMacHeader.type[0]) of a packet handed to a TDMA MAC layer.
MaxHeaderType == 3
\* Largest number of packets handed to the TDMA MAC layers in one run.
MaxTdmaPackets == 3
\* Largest number of calls of one MAC address generator.
MaxAddressCalls == 257
\* Largest configured number of episodes and largest configured horizon.
MaxEpisodes == 3
MaxHorizon == 3
\* Number of callables that can be added to a port as destinations.
NumDests == 3
\* Largest number of additions to a port and of messages sent on it.
MaxAdditions == 3
MaxPortSends == 2
\* Longest header and longest payload of a received transmission, in ticks.
MaxHeaderTicks == 2
MaxPayloadTicks == 2
\* Largest bit rate, in bits per tick.
MaxBitRate == 2
\* Largest bit error rate, in half bit errors per bit.
MaxBerHalves == 1
\* Last tick of a run of the sending and sensing physical layer.
MaxRadioTime == 3

\* Packets the transport layer submits to one SimpleMac, and the grants the
\* layer is given meanwhile.
MaxQueueSubmissions == 102
MaxQueueGrants == 2

\* Transmissions started on a frequency band with reach-scoped notifiers, and
\* the simulated time up to which they start.
MaxNotifyTransmissions == 2
MaxNotifyTime == 1

\* Model classes a JoinedAttenuationModel is made of.
MaxContributors == 3

\* Longest block length n of a code rate k/n.
MaxCodeLength == 5

\* Bits in a byte of a counter value (8 in the code), to keep counters small.
BitsPerByte == 1

\* ------------------------------------------------------------ Python values

None == <<>>

MacNames == <<"A", "B", "C", "D", "E", "F">>

Bytes(name) == <<"bytes", name>>

\* object.__str__ of a MAC address or of a string
Str(v) == <<"str", v[2]>>

Macs == {Bytes(MacNames[i]) : i \in 1..NumMacs}

\* float.__str__ of a probability given in tenths: "0.3", "1.0"
FloatToStr(tenths) == <<tenths \div 10, ".", tenths % 10>>

RECURSIVE IntToStr(_)
\* int.__str__ of a non-negative integer: its decimal digits
IntToStr(n) == IF n < 10 THEN <<n>> ELSE Append(IntToStr(n \div 10), n % 10)

RECURSIVE StrToInt(_)
\* int(s) of a tuple of decimal digits
StrToInt(s) ==
    IF Len(s) = 0 THEN 0
    ELSE StrToInt(SubSeq(s, 1, Len(s) - 1)) * 10 + s[Len(s)]

RECURSIVE Join(_)
\* " ".join(list of strings), as the tuple of the words of the result
Join(strings) ==
    IF Len(strings) = 0 THEN <<>> ELSE Head(strings) \o Join(Tail(strings))

\* ------------------------------------------------------------------- state

VARIABLES
    action,       \* Schedule.action: the action list the schedule was made from
    schedule,     \* Schedule.schedule: the list of entry strings
    string,       \* Schedule.string: the entries joined by spaces
    length,       \* CSMASchedule.length
    kind,         \* "none" before a schedule object exists, then "TDMA" or "CSMA"
    result,       \* the last call on the schedule: its name, arguments and return value
    devices,      \* Scheduler.devices: the ordered list of MAC addresses
    actuators,    \* RoundRobinTDMAScheduler.actuators
    timeslots,    \* Scheduler.timeslots: the length of every schedule
    nextDevice,   \* RoundRobinTDMAScheduler.nextDevice: the cursor, a 0-based index
    wasActuator,  \* RoundRobinTDMAScheduler.wasActuator
    slotLog,      \* history: the action lists of all schedules generated, concatenated
    instances,    \* AttenuationModelFactory._instances: device pair -> model instance
    created,      \* history: device pair -> number of model instances constructed for it
    returned,     \* history: every (deviceA, deviceB, instance) getAttenuationModel returned
    attResult,    \* the last getAttenuationModel call and its outcome
    sensor,       \* a SensorMacTDMA: its fields, its _senddata process and its phyOut sends
    actuator,     \* an ActuatorMacTDMA: its fields and its networkOut sends
    gates,        \* Gate objects: the callables of their ports and the calls made
    listener,     \* a module with generator listeners on one gate
    band,         \* a FrequencyBand: its transmissions and the simulated time
    phy,          \* a receiving SimplePhy and the transmissions it senses
    mac,          \* a SimpleMac serving RECEIVE commands
    polled,       \* two SimpleMac devices polled by a SimpleRrmMac
    tdma,         \* the phyIn listeners of the three TDMA MAC layers
    addrgen,      \* the counters of the MAC address generators
    env,          \* a BAEnvironment with the gateway process of its round-robin run
    radio,        \* a SimplePhy that sends, senses and keeps its received power
    reception,    \* one run of SimplePhy._receive in simulated time
    joined,       \* the construction of a JoinedAttenuationModel and its contributors
    counter       \* the counter-traffic environment: two senders and the interpreter

schedVars == <<action, schedule, string, length, kind>>

rrVars == <<devices, actuators, timeslots, nextDevice, wasActuator, slotLog>>

attVars == <<instances, created, returned, attResult>>

ctrlVars == <<schedVars, result, rrVars, attVars>>

netVars == <<sensor, actuator, gates, listener, band, phy, mac, polled>>

moreVars == <<tdma, addrgen, env, radio, reception, joined, counter>>

vars == <<ctrlVars, netVars, moreVars>>

\* Everything but one networking component.
notSensor == <<ctrlVars, actuator, gates, listener, band, phy, mac, polled, moreVars>>

notActuator == <<ctrlVars, sensor, gates, listener, band, phy, mac, polled, moreVars>>

notGates == <<ctrlVars, sensor, actuator, listener, band, phy, mac, polled, moreVars>>

notListener == <<ctrlVars, sensor, actuator, gates, band, phy, mac, polled, moreVars>>

notBand == <<ctrlVars, sensor, actuator, gates, listener, phy, mac, polled, moreVars>>

notPhy == <<ctrlVars, sensor, actuator, gates, listener, band, mac, polled, moreVars>>

notMac == <<ctrlVars, sensor, actuator, gates, listener, band, phy, polled, moreVars>>

notPolled == <<ctrlVars, sensor, actuator, gates, listener, band, phy, mac, moreVars>>

notTdma == <<ctrlVars, netVars, addrgen, env, radio, reception, joined, counter>>

notAddrgen == <<ctrlVars, netVars, tdma, env, radio, reception, joined, counter>>

notEnv == <<ctrlVars, netVars, tdma, addrgen, radio, reception, joined, counter>>

notRadio == <<ctrlVars, netVars, tdma, addrgen, env, reception, joined, counter>>

notReception == <<ctrlVars, netVars, tdma, addrgen, env, radio, joined, counter>>

notJoined == <<ctrlVars, netVars, tdma, addrgen, env, radio, reception, counter>>

notCounter == <<ctrlVars, netVars, tdma, addrgen, env, radio, reception, joined>>


\* ------------------------------------------------------------ TDMASchedule

RECURSIVE TDMAEntries_ByDevice(_, _, _)
\* Variant: a run ends only where the device changes, whatever the flag.
TDMAEntries_ByDevice(a, i, last_action) ==
    IF i >= Len(a) THEN <<>>
    ELSE (IF last_action = None \/ a[i + 1][1] # last_action[1]
          THEN << <<IntToStr(i + 1), Str(a[i + 1][1]), IntToStr(a[i + 1][2]), <<1>> >> >>
          ELSE <<>>)
         \o TDMAEntries_ByDevice(a, i + 1, a[i + 1])

RECURSIVE TDMAEntries(_, _, _)
\* The loop of TDMASchedule.__init__: i is the 0-based loop index.
TDMAEntries(a, i, last_action) ==
    IF i >= Len(a) THEN <<>>
    ELSE (IF a[i + 1] # last_action
          THEN << <<IntToStr(i + 1), Str(a[i + 1][1]), IntToStr(a[i + 1][2]), <<1>> >> >>
          ELSE <<>>)
         \o TDMAEntries(a, i + 1, a[i + 1])

\* Variant: the end marker is the last slot instead of one past it.
TDMAScheduleInit_EndAtLastSlot(a) ==
    LET sched == Append(TDMAEntries(a, 0, None), <<IntToStr(Len(a))>>)
    IN  [action |-> a, schedule |-> sched, string |-> Join(sched)]

TDMAScheduleInit(a) ==
    LET sched == Append(TDMAEntries(a, 0, None), <<IntToStr(Len(a) + 1)>>)
    IN  [action |-> a, schedule |-> sched, string |-> Join(sched)]

RECURSIVE TimespanScan_NotStrict(_, _, _, _)
\* Variant: an entry starting at last_step itself is accepted.
TimespanScan_NotStrict(schedule_list, i, mac_address, last_step) ==
    IF i >= Len(schedule_list) THEN None
    ELSE IF /\ ((i % 4) - 1) = 0
            /\ schedule_list[i + 1] = mac_address
            /\ StrToInt(schedule_list[i]) >= last_step
         THEN <<StrToInt(schedule_list[i]), StrToInt(schedule_list[i + 4])>>
         ELSE TimespanScan_NotStrict(schedule_list, i + 1, mac_address, last_step)

RECURSIVE TimespanScan_ToNextDevice(_, _, _, _)
\* Variant: the span ends at the next entry of another device (or at the end
\* marker) instead of at the next entry.
TimespanScan_ToNextDevice(schedule_list, i, mac_address, last_step) ==
    IF i >= Len(schedule_list) THEN None
    ELSE IF /\ ((i % 4) - 1) = 0
            /\ schedule_list[i + 1] = mac_address
            /\ StrToInt(schedule_list[i]) > last_step
         THEN LET later == {j \in (i + 4)..Len(schedule_list) :
                              /\ j % 4 = 1
                              /\ (j = Len(schedule_list) \/ schedule_list[j + 1] # mac_address)}
                  j == CHOOSE x \in later : \A y \in later : x <= y
              IN  <<StrToInt(schedule_list[i]), StrToInt(schedule_list[j])>>
         ELSE TimespanScan_ToNextDevice(schedule_list, i + 1, mac_address, last_step)

RECURSIVE TimespanScan(_, _, _, _)
\* The loop of get_next_relevant_timespan: i is the 0-based loop index.
TimespanScan(schedule_list, i, mac_address, last_step) ==
    IF i >= Len(schedule_list) THEN None
    ELSE IF /\ ((i % 4) - 1) = 0
            /\ schedule_list[i + 1] = mac_address
            /\ StrToInt(schedule_list[i]) > last_step
         THEN <<StrToInt(schedule_list[i]), StrToInt(schedule_list[i + 4])>>
         ELSE TimespanScan(schedule_list, i + 1, mac_address, last_step)

get_next_relevant_timespan(str, mac_address, last_step) ==
    TimespanScan(str, 0, mac_address, last_step)

get_end_time(str) == StrToInt(str[Len(str)])

\* -------------------------------------------------------------- tdma_encode

RECURSIVE EncodeCompressed(_, _, _)
\* The loop of the compressed branch: it runs over schedule.action.
EncodeCompressed(a, i, already_in) ==
    IF i >= Len(a) THEN 0
    ELSE IF a[i + 1][1] \in already_in
         THEN 3 + EncodeCompressed(a, i + 1, already_in)
         ELSE 7 + EncodeCompressed(a, i + 1, already_in \cup {a[i + 1][1]})

\* Variant: the uncompressed length counts slots instead of entries.
tdma_encode_PerSlot(sched, act, compressed) ==
    IF ~compressed
    THEN 1 + 7 * Len(act)
    ELSE 1 + EncodeCompressed(act, 0, {})

tdma_encode(sched, act, compressed) ==
    IF ~compressed
    THEN 1 + 7 * (Len(sched) - 1)
    ELSE 1 + EncodeCompressed(act, 0, {})

\* ------------------------------------------------------------ CSMASchedule

\* CSMASchedule.__init__(action, length): no check of the probabilities is made.
CSMAScheduleInit(a, len) ==
    LET sched == Append([i \in 1..Len(a) |-> <<Str(a[i][1]), FloatToStr(a[i][2])>>],
                        <<IntToStr(len)>>)
    IN  [action |-> a, length |-> len, schedule |-> sched, string |-> Join(sched)]

csma_encode(sched) == 7 * (Len(sched) - 1) + 1

\* -------------------------------------------------- RoundRobinTDMAScheduler

\* Variant: the cursor wraps one position early, before the last device.
RRSlot_WrapEarly(devs, acts, st) ==
    LET d == devs[st.nextDevice + 1]
        appended ==
            IF d \in acts
            THEN IF st.wasActuator
                 THEN [st EXCEPT !.action = Append(@, <<d, 0>>), !.wasActuator = FALSE]
                 ELSE [st EXCEPT !.action = Append(@, <<d, 1>>), !.wasActuator = TRUE]
            ELSE [st EXCEPT !.action = Append(@, <<d, 0>>)]
    IN  IF ~appended.wasActuator
        THEN [appended EXCEPT !.nextDevice = IF @ >= Len(devs) - 2 THEN 0 ELSE @ + 1]
        ELSE appended

\* One iteration of the loop of next_schedule; st holds nextDevice, wasActuator
\* and the action list built so far.
RRSlot(devs, acts, st) ==
    LET d == devs[st.nextDevice + 1]
        appended ==
            IF d \in acts
            THEN IF st.wasActuator
                 THEN [st EXCEPT !.action = Append(@, <<d, 0>>), !.wasActuator = FALSE]
                 ELSE [st EXCEPT !.action = Append(@, <<d, 1>>), !.wasActuator = TRUE]
            ELSE [st EXCEPT !.action = Append(@, <<d, 0>>)]
    IN  IF ~appended.wasActuator
        THEN [appended EXCEPT !.nextDevice = IF @ = Len(devs) - 1 THEN 0 ELSE @ + 1]
        ELSE appended

RECURSIVE RRLoop(_, _, _, _)
\* for i in range(n)
RRLoop(n, devs, acts, st) ==
    IF n = 0 THEN st ELSE RRLoop(n - 1, devs, acts, RRSlot(devs, acts, st))

\* Variant: every call forgets that the last slot of the previous schedule
\* opened an actuator's turn.
next_schedule_ForgetsActuator(devs, acts, n, cursor, was) ==
    RRLoop(n, devs, acts, [nextDevice |-> cursor, wasActuator |-> FALSE, action |-> <<>>])

\* Variant: every call starts again at the first device.
next_schedule_FromFirst(devs, acts, n, cursor, was) ==
    RRLoop(n, devs, acts, [nextDevice |-> 0, wasActuator |-> was, action |-> <<>>])

\* next_schedule(): the scheduler's fields after the call and the action list
\* the new TDMASchedule is made from; the cursor is taken over from the last call.
next_schedule(devs, acts, n, cursor, was) ==
    RRLoop(n, devs, acts, [nextDevice |-> cursor, wasActuator |-> was, action |-> <<>>])

RECURSIVE StrGreater(_, _)
\* a > b for two str objects made of decimal digits: the comparison is
\* lexicographic, so that "9" > "10".
StrGreater(a, b) ==
    IF Len(a) = 0 THEN FALSE
    ELSE IF Len(b) = 0 THEN TRUE
    ELSE IF Head(a) # Head(b) THEN Head(a) > Head(b)
    ELSE StrGreater(Tail(a), Tail(b))

RECURSIVE ControlSlotScan(_, _, _, _)
\* The for loop of get_next_control_slot from index i on. last_control_slot is
\* [int |-> n] for an int and [str |-> digits] for a str; comparing a str
\* with an int raises TypeError.
ControlSlotScan(schedule_list, i, acts, last_control_slot) ==
    IF i >= Len(schedule_list) THEN [raised |-> FALSE, value |-> None]
    ELSE IF (i % 4) - 1 = 0 /\ schedule_list[i + 1] \in acts
         THEN IF "int" \in DOMAIN last_control_slot
              THEN [raised |-> TRUE, value |-> None]
              ELSE IF StrGreater(schedule_list[i], last_control_slot.str)
                   THEN [raised |-> FALSE,
                         value |-> <<schedule_list[i], schedule_list[i + 1]>>]
                   ELSE ControlSlotScan(schedule_list, i + 1, acts, last_control_slot)
         ELSE ControlSlotScan(schedule_list, i + 1, acts, last_control_slot)

\* RoundRobinTDMAScheduler.get_next_control_slot(last_control_slot) on the
\* scheduler's current schedule, whose string is str; acts is self.actuators.
get_next_control_slot(str, acts, last_control_slot) ==
    ControlSlotScan(str, 0, acts, last_control_slot)

\* -------------------------------------------------- AttenuationModelFactory

\* frozenset((deviceA, deviceB))
DevicePair(deviceA, deviceB) == {deviceA, deviceB}

\* Variant: the cache is keyed by the ordered pair (deviceA, deviceB).
getInstance_OrderedKey(cache, made, deviceA, deviceB) ==
    LET key == <<deviceA, deviceB>>
        devicePair == DevicePair(deviceA, deviceB)
    IN  IF key \in DOMAIN cache
        THEN [cache |-> cache, constructed |-> {}, ok |-> TRUE, value |-> cache[key]]
        ELSE IF Cardinality(devicePair) # 2
             THEN [cache |-> cache, constructed |-> {}, ok |-> FALSE, value |-> "TypeError"]
             ELSE LET instance == <<devicePair, made[devicePair] + 1>>
                  IN  [cache |-> [k \in DOMAIN cache \cup {key} |->
                                     IF k = key THEN instance ELSE cache[k]],
                       constructed |-> {devicePair},
                       ok |-> TRUE,
                       value |-> instance]

\* Variant: a pair of one device is constructed and stored like any other.
getInstance_StoreSelfPair(cache, made, deviceA, deviceB) ==
    LET devicePair == DevicePair(deviceA, deviceB)
    IN  IF devicePair \in DOMAIN cache
        THEN [cache |-> cache, constructed |-> {}, ok |-> TRUE, value |-> cache[devicePair]]
        ELSE LET instance == <<devicePair, made[devicePair] + 1>>
             IN  [cache |-> [k \in DOMAIN cache \cup {devicePair} |->
                                IF k = devicePair THEN instance ELSE cache[k]],
                  constructed |-> {devicePair},
                  ok |-> TRUE,
                  value |-> instance]

\* getInstance(deviceA, deviceB): the cache afterwards, whether an instance was
\* constructed, and the instance returned. _initInstance unpacks the pair into
\* the constructor's deviceA and deviceB, so a pair of one device makes the
\* constructor call raise TypeError before anything is stored.
getInstance(cache, made, deviceA, deviceB) ==
    LET devicePair == DevicePair(deviceA, deviceB)
    IN  IF devicePair \in DOMAIN cache
        THEN [cache |-> cache, constructed |-> {}, ok |-> TRUE, value |-> cache[devicePair]]
        ELSE IF Cardinality(devicePair) # 2
             THEN [cache |-> cache, constructed |-> {}, ok |-> FALSE, value |-> "TypeError"]
             ELSE LET instance == <<devicePair, made[devicePair] + 1>>
                  IN  [cache |-> [k \in DOMAIN cache \cup {devicePair} |->
                                     IF k = devicePair THEN instance ELSE cache[k]],
                       constructed |-> {devicePair},
                       ok |-> TRUE,
                       value |-> instance]

\* ------------------------------------------------------------ SensorMacTDMA

\* Values a sensor hands to its MAC layer.
SensorData == {"s1", "s2"}

\* Packet(NCSMacHeader(type 0, sourceMAC), Transmittable(schedule), Transmittable(clock))
SchedulePacket(sourceMAC, sched, clock) ==
    [type |-> 0, sourceMAC |-> sourceMAC, payload |-> sched, trailer |-> clock]

\* Packet(NCSMacHeader(type 1, sourceMAC), Transmittable(data)): the header
\* names no destination.
DataPacket(sourceMAC, data) ==
    [type |-> 1, sourceMAC |-> sourceMAC, destMAC |-> None, payload |-> data]

\* SensorMacTDMA.__init__
SensorMacInit(addr) ==
    [addr |-> addr,
     receiving |-> TRUE,
     schedule |-> None,
     lastGatewayClock |-> 0,
     gateway_address |-> None,
     lastDatapacket |-> None,
     network_cmd |-> None,
     pc |-> "idle",
     span |-> None,
     i |-> 0,
     now |-> 0,
     sent |-> <<>>]

\* The lookup at the end of the while loop of _senddata: it passes self.addr,
\* a bytes object.
SenddataNextSpan(s, relevant_span) ==
    get_next_relevant_timespan(s.schedule.string, s.addr, relevant_span[2])

RECURSIVE SenddataLoop(_, _, _)
\* _senddata from the head of its for loop, with slot i next, up to the next
\* yield or to the end of the process.
SenddataLoop(s, relevant_span, i) ==
    IF relevant_span = None
    THEN [s EXCEPT !.receiving = TRUE, !.pc = "idle", !.span = None]
    ELSE IF i < relevant_span[2]
         THEN [s EXCEPT !.pc = "waitSlot", !.span = relevant_span, !.i = i]
         ELSE LET next == SenddataNextSpan(s, relevant_span)
              IN  SenddataLoop(s, next, IF next = None THEN 0 ELSE next[1])

\* _senddata from its start to its first yield.
SenddataStart(s) ==
    LET relevant_span == get_next_relevant_timespan(s.schedule.string, Str(s.addr), 0)
    IN  SenddataLoop([s EXCEPT !.receiving = FALSE, !.sent = <<>>],
                     relevant_span,
                     IF relevant_span = None THEN 0 ELSE relevant_span[1])

\* SensorMacTDMA.phyInGateListener(packet); a schedule triggers
\* _nScheduleAdded, which starts _senddata at the same instant.
SensorPhyIn(s, packet) ==
    IF s.receiving /\ packet.type = 0
    THEN SenddataStart([s EXCEPT !.schedule = packet.payload,
                                 !.lastGatewayClock = packet.trailer,
                                 !.gateway_address = packet.sourceMAC])
    ELSE s

\* SensorMacTDMA.networkInGateListener(Message(SEND, {"state": data}))
SensorNetworkIn(s, data) ==
    [s EXCEPT !.network_cmd = [state |-> data, processed |-> FALSE],
              !.lastDatapacket = DataPacket(s.addr, data)]

\* _senddata resumed by timeoutUntil(_lastGatewayClock + i * TIMESLOT_LENGTH):
\* the SEND command goes out on phyOut.
SenddataSlot(s) ==
    LET time == s.lastGatewayClock + s.i * TicksPerSlot
    IN  [s EXCEPT !.now = time,
                  !.sent = Append(@, [time |-> time, slot |-> s.i, packet |-> s.lastDatapacket]),
                  !.pc = "waitProcessed"]

\* _senddata resumed by send_cmd.eProcessed after duration ticks:
\* _network_cmd.setProcessed() fails when no SEND command ever came from the
\* network layer.
SenddataProcessed(s, duration) ==
    LET t == [s EXCEPT !.now = @ + duration]
    IN  IF s.network_cmd = None
        THEN [t EXCEPT !.pc = "crashed"]
        ELSE SenddataLoop([t EXCEPT !.network_cmd.processed = TRUE], s.span, s.i + 1)

\* ---------------------------------------------------------- ActuatorMacTDMA

\* Control values the gateway sends to actuators.
ControlData == {"u1", "u2"}

\* GatewayMac._sendControl: Packet(NCSMacHeader(type 2, self.addr, receiver),
\* Transmittable(control))
ControlPacket(sourceMAC, receiver, control) ==
    [type |-> 2, sourceMAC |-> sourceMAC, destMAC |-> receiver, payload |-> control]

\* ActuatorMacTDMA.__init__; received counts the packets handed up by the
\* physical layer and lastPacket is the last of them.
ActuatorMacInit(addr) ==
    [addr |-> addr,
     schedule |-> None,
     gatewayAdress |-> None,
     networkOut |-> <<>>,
     lastPacket |-> None,
     received |-> 0]

\* ActuatorMacTDMA.phyInGateListener(packet)
ActuatorPhyIn(a, packet) ==
    LET stored == IF packet.type = 0
                  THEN [a EXCEPT !.schedule = packet.payload,
                                 !.gatewayAdress = packet.sourceMAC]
                  ELSE a
        sent == IF packet.type = 1 /\ packet.destMAC = a.addr
                THEN [stored EXCEPT !.networkOut = Append(@, packet.payload)]
                ELSE stored
    IN  [sent EXCEPT !.lastPacket = packet, !.received = @ + 1]

\* --------------------------------------------------------- Gate, Gate.Port

GateNames == <<"g1", "g2", "g3", "g4">>

Gates == {GateNames[i] : i \in 1..NumGates}

\* A port is <<gate, "input">> or <<gate, "output">>.
Ports == Gates \X {"input", "output"}

\* The members of a port's _onSendCallables: the inputCallback a gate was
\* constructed with, and the bound method port.send of a port.
Callback(g) == <<"callback", g, "input">>

SendOf(port) == <<"send", port[1], port[2]>>

\* Port.connectTo(port): self._addDest(port.send)
connectTo(callables, self, port) ==
    [callables EXCEPT ![self] = @ \cup {SendOf(port)}]

\* Gate.connectOutputTo(port)
connectOutputTo(callables, self, port) == connectTo(callables, <<self, "output">>, port)

\* Variant: the second connection goes to self.output, as the docstring of
\* biConnectWith spells it.
biConnectWith_ToOwnOutput(callables, self, gate) ==
    connectOutputTo(connectOutputTo(callables, self, <<gate, "input">>),
                    gate, <<self, "output">>)

\* Gate.biConnectWith(gate)
biConnectWith(callables, self, gate) ==
    connectOutputTo(connectOutputTo(callables, self, <<gate, "input">>),
                    gate, <<self, "input">>)

RECURSIVE PortSend(_, _, _, _)
\* Port.send(message): the (callback, message) calls made, the ports whose
\* send ran, and whether the calls ran into a cycle of connections (Python
\* then raises RecursionError). depth is the number of nested send calls
\* still allowed; a path longer than the number of ports repeats a port.
\* Port._sendEvent, which only wakes processes that wait for the next
\* message of a port, is left out.
PortSend(callables, self, message, depth) ==
    IF depth = 0
    THEN [delivered |-> {}, visited |-> {}, error |-> TRUE]
    ELSE LET sends == {PortSend(callables, <<c[2], c[3]>>, message, depth - 1) :
                          c \in {d \in callables[self] : d[1] = "send"}}
         IN  [delivered |-> {<<c, message>> : c \in {d \in callables[self] : d[1] = "callback"}}
                               \cup UNION {r.delivered : r \in sends},
              visited |-> {self} \cup UNION {r.visited : r \in sends},
              error |-> \E r \in sends : r.error]

\* Gate(name, inputCallback) for every gate; withCallback is the set of gates
\* that are given an inputCallback.
GatesInit(withCallback) ==
    [callables |-> [port \in Ports |->
                      IF port[2] = "input" /\ port[1] \in withCallback
                      THEN {Callback(port[1])}
                      ELSE {}],
     connections |-> 0,
     biConnected |-> {},
     lastOp |-> [op |-> "none"]]

\* ----------------------------------------------- FrequencyBand, Transmission

\* Transmission.__init__: stopTime = startTime + duration
Transmission(id, startTime, duration) ==
    [id |-> id, startTime |-> startTime, stopTime |-> startTime + duration]

\* Transmission.completed
completed(t, now) == now >= t.stopTime

RECURSIVE removePastTransmissions(_, _)
\* FrequencyBand._removePastTransmissions on the deque _transmissions
removePastTransmissions(transmissions, now) ==
    IF Len(transmissions) > 0 /\ completed(transmissions[1], now)
    THEN removePastTransmissions(Tail(transmissions), now)
    ELSE transmissions

\* FrequencyBand._removeFirstPastTransmission
removeFirstPastTransmission(transmissions, now) ==
    IF Len(transmissions) > 0 /\ completed(transmissions[1], now)
    THEN Tail(transmissions)
    ELSE transmissions

\* FrequencyBand.transmit(...): the deque afterwards; the new transmission is
\* its last element.
transmit(transmissions, now, id, duration) ==
    Append(removeFirstPastTransmission(transmissions, now), Transmission(id, now, duration))

\* FrequencyBand.getActiveTransmissions(): the deque afterwards, which is
\* also the list returned.
getActiveTransmissions(transmissions, now) == removePastTransmissions(transmissions, now)

\* FrequencyBand.__init__ at simulated time 0; started is the history of all
\* transmissions.
FrequencyBandInit ==
    [now |-> 0, transmissions |-> <<>>, started |-> {}, lastOp |-> [op |-> "none"]]

\* ------------------------------------- FrequencyBand: notifying subscribers

\* Position.distanceTo for positions on a line.
distanceTo(p, q) == IF p >= q THEN p - q ELSE q - p

\* FrequencyBand.__init__ with devices at the given positions; pending holds
\* the callAfterReturn callbacks of timeout(0) events not processed yet, and
\* notified lists the callbacks that ran, each with the triggers it made.
NotifyingBandInit(positions) ==
    [now |-> 0,
     positions |-> positions,
     transmissions |-> <<>>,
     started |-> 0,
     returned |-> <<>>,
     inReachNotifiers |-> {},
     pending |-> <<>>,
     notified |-> <<>>]

\* FrequencyBand.nNewTransmissionInReach(receiver, radius); a radius is
\* <<"int", r>> or <<"float", r>>. The name of a new notifier is formatted
\* with {:d}, which raises for a float, so that no notifier is created.
nNewTransmissionInReach(b, receiver, radius) ==
    IF <<receiver, radius[2]>> \in b.inReachNotifiers
    THEN b
    ELSE IF radius[1] = "float"
         THEN b
         ELSE [b EXCEPT !.inReachNotifiers = @ \cup {<<receiver, radius[2]>>}]

\* FrequencyBand.transmit(sender, ...) with a packet of duration ticks: the
\* transmission is appended and returned, and callAfterReturn becomes the
\* callback of a timeout(0) event.
transmitThenNotify(b, sender, duration) ==
    LET id == [sender |-> sender, n |-> b.started + 1]
        after == transmit(b.transmissions, b.now, id, duration)
        t == after[Len(after)]
    IN  [b EXCEPT !.transmissions = after,
                  !.started = @ + 1,
                  !.returned = Append(@, t),
                  !.pending = Append(@, t)]

\* Variant: a receiver exactly radius away from the sender is not notified.
callAfterReturn_StrictlyInside(b) ==
    LET t == Head(b.pending)
        reach == {key \in b.inReachNotifiers :
                     distanceTo(b.positions[key[1]], b.positions[t.id.sender]) < key[2]}
    IN  [b EXCEPT !.pending = Tail(@),
                  !.notified = Append(@, [t |-> t,
                                          time |-> b.now,
                                          newTransmission |-> 1,
                                          inReach |-> reach])]

\* callAfterReturn of the oldest timeout(0) event: nNewTransmission is
\* triggered, and then every reach-scoped notifier whose receiver is within
\* its radius of the sender.
callAfterReturn(b) ==
    LET t == Head(b.pending)
        reach == {key \in b.inReachNotifiers :
                     distanceTo(b.positions[key[1]], b.positions[t.id.sender]) <= key[2]}
    IN  [b EXCEPT !.pending = Tail(@),
                  !.notified = Append(@, [t |-> t,
                                          time |-> b.now,
                                          newTransmission |-> 1,
                                          inReach |-> reach])]

\* ------------------------------------------------- JoinedAttenuationModel

\* PositionalAttenuationModel.STANDBY_THRESHOLD
STANDBY_THRESHOLD == 3000

\* The attributes of the joined model that the model reads; reading one that
\* has not been assigned raises AttributeError.
JoinedAttributes == {"attenuation", "_updateGatheringActive"}

\* sum(values) over the entries of a list
RECURSIVE SumSeq(_)
SumSeq(values) == IF values = <<>> THEN 0 ELSE Head(values) + SumSeq(Tail(values))

\* AttenuationModel.__init__ of a contributing model; positional tells
\* whether its class is a PositionalAttenuationModel, which subscribes to the
\* position changes of both devices.
AttenuationModelInit(positional) == [attenuation |-> 0, positional |-> positional]

\* JoinedAttenuationModel.__init__(frequencyBandSpec, deviceA, deviceB, models)
\* for the list of model classes given; definesCurrent tells whether these
\* classes offer an attribute currentAttenuation, which AttenuationModel
\* itself does not. AttenuationModel.__init__ is not called, so that neither
\* attenuation nor devices nor nAttenuationChanges of the new object is set:
\* the constructor raises at model.currentAttenuation or, at the latest,
\* at "for device in self.devices". The contributing models have been
\* instantiated by then, and their updater callbacks, which all read the
\* loop variable model once the loop has ended, stay subscribed.
JoinedAttenuationModelInit(classes, definesCurrent) ==
    LET models == [k \in 1..Len(classes) |-> AttenuationModelInit(classes[k])]
        started == [models |-> models,
                    modelAttenuations |-> <<>>,
                    updaters |-> {},
                    boundModel |-> 1,
                    assigned |-> {},
                    updateGatheringActive |-> FALSE,
                    attenuation |-> 0,
                    hooks |-> FALSE,
                    triggered |-> <<>>,
                    raised |-> TRUE]
    IN  IF ~definesCurrent
        THEN started
        ELSE [started EXCEPT
                 !.modelAttenuations = [k \in 1..Len(models) |-> models[k].attenuation],
                 !.updaters = 1..Len(models),
                 !.boundModel = Len(models),
                 !.assigned = {"_updateGatheringActive"},
                 !.updateGatheringActive = FALSE]

\* AttenuationModel._setAttenuation(newAttenuation) of the joined model
joinedSetAttenuation(j, newAttenuation) ==
    IF "attenuation" \notin j.assigned
    THEN [j EXCEPT !.raised = TRUE]
    ELSE IF newAttenuation # j.attenuation
         THEN [j EXCEPT !.attenuation = newAttenuation,
                        !.triggered = Append(@, newAttenuation)]
         ELSE j

\* JoinedAttenuationModel._updateSum
updateSum(j) == joinedSetAttenuation(j, SumSeq(j.modelAttenuations))

\* The callback updater(newAttenuation) defined in the constructor's loop.
updater(j, newAttenuation) ==
    LET stored == [j EXCEPT !.modelAttenuations[j.boundModel] = newAttenuation]
    IN  IF "_updateGatheringActive" \notin stored.assigned
        THEN [stored EXCEPT !.raised = TRUE]
        ELSE IF ~stored.updateGatheringActive THEN updateSum(stored) ELSE stored

\* AttenuationModel._setAttenuation(newAttenuation) of contributor k, whose
\* notifier calls the updater subscribed to it.
setAttenuation(j, k, newAttenuation) ==
    IF newAttenuation # j.models[k].attenuation
    THEN LET set == [j EXCEPT !.models[k].attenuation = newAttenuation]
         IN  IF k \in j.updaters THEN updater(set, newAttenuation) ELSE set
    ELSE j

RECURSIVE positionChangedCallbacks(_, _, _, _)
\* The callbacks _positionChangedCallback of the contributors from the k-th
\* on, called by the position's notifier; near tells whether the devices are
\* closer than STANDBY_THRESHOLD, and values[k] is the attenuation the k-th
\* model's _positionChanged computes. An exception ends the notification.
positionChangedCallbacks(j, k, near, values) ==
    IF k > Len(j.models) \/ j.raised THEN j
    ELSE IF j.models[k].positional /\ near
         THEN positionChangedCallbacks(setAttenuation(j, k, values[k]), k + 1, near, values)
         ELSE positionChangedCallbacks(j, k + 1, near, values)

\* position.nChange.trigger of one of the two devices: the callbacks in the
\* order of their priority, beforeUpdates first and afterUpdates last where
\* the constructor got as far as subscribing them.
positionChanged(j, near, values) ==
    LET before == IF j.hooks THEN [j EXCEPT !.updateGatheringActive = TRUE] ELSE j
        updated == positionChangedCallbacks(before, 1, near, values)
    IN  IF j.hooks /\ ~updated.raised
        THEN [updateSum(updated) EXCEPT !.updateGatheringActive = FALSE]
        ELSE updated

\* ---------------------------------------------------------- Mcs, SimplePhy

RECURSIVE binom(_, _)
\* scipy.special.binom(n, t) for integers 0 <= t
binom(n, t) ==
    IF t = 0 THEN 1
    ELSE IF t > n THEN 0
    ELSE binom(n - 1, t - 1) + binom(n - 1, t)

RECURSIVE MaxBerLoop(_, _, _, _)
\* The while loop of Mcs.maxCorrectableBer: the value of t when it ends.
MaxBerLoop(n, bound, currentSum, t) ==
    IF currentSum <= bound
    THEN MaxBerLoop(n, bound, currentSum + binom(n, t), t + 1)
    ELSE t

\* Mcs.maxCorrectableBer() for the code rate k/n, as the fraction <<t, n>>
maxCorrectableBer(codeRate) ==
    LET k == codeRate[1]
        n == codeRate[2]
        bound == 2 ^ (n - k)
    IN  <<MaxBerLoop(n, bound, 0, 0) - 1, n>>

\* Mcs.maxCorrectableBer() with the class-wide dictionary
\* _codeRateToMaxCorrectableBer: the dictionary afterwards and the value
\* returned; computed tells whether the value was calculated by this call.
cachedMaxCorrectableBer(cache, codeRate) ==
    IF codeRate \in DOMAIN cache
    THEN [cache |-> cache, value |-> cache[codeRate], computed |-> FALSE]
    ELSE LET maxBer == maxCorrectableBer(codeRate)
         IN  [cache |-> [r \in DOMAIN cache \cup {codeRate} |->
                            IF r = codeRate THEN maxBer ELSE cache[r]],
              value |-> maxBer,
              computed |-> TRUE]

\* round(x) of Python 3 for x given in half bits: to the nearest integer,
\* a tie to the even one.
PyRound(halves) ==
    LET q == halves \div 2
    IN  IF halves % 2 = 0 THEN q
        ELSE IF q % 2 = 0 THEN q ELSE q + 1

\* Variant: a packet whose bit error rate equals the maximum is dropped too.
receiveDecision_DropAtLimit(bitErrorSum, bitSize, codeRate) ==
    LET maxBer == maxCorrectableBer(codeRate)
    IN  IF bitErrorSum * maxBer[2] >= maxBer[1] * bitSize THEN "dropped" ELSE "sent"

\* The end of SimplePhy._receive: bitErrorRate = bitErrorSum / bitSize is
\* compared with maxCorrectableBer = t / n.
receiveDecision(bitErrorSum, bitSize, codeRate) ==
    LET maxBer == maxCorrectableBer(codeRate)
    IN  IF bitErrorSum * maxBer[2] > maxBer[1] * bitSize THEN "dropped" ELSE "sent"

\* The receptions whose _receive process has subscribed onReceivedPowerChange.
Receiving(p) == {id \in DOMAIN p.rx : p.rx[id].state \in {"header", "payload"}}

\* _nReceivedPowerChanges.trigger(delta) with delta # 0: onReceivedPowerChange
\* of every running reception adds the bit errors of the interval that ends,
\* bitErrors[id] half bits.
receivedPowerChanges(p, bitErrors) ==
    [p EXCEPT !.rx = [id \in DOMAIN p.rx |->
                        IF id \in Receiving(p)
                        THEN [p.rx[id] EXCEPT !.bitErrorSum = @ + bitErrors[id]]
                        ELSE p.rx[id]]]

\* A transmission t of another device starts: _onNewTransmission changes the
\* received power, then _receive(t) runs to its first yield.
newTransmission(p, bitErrors) ==
    LET q == receivedPowerChanges(p, bitErrors)
        id == Len(q.rx) + 1
    IN  [q EXCEPT !.rx = Append(@, [state |-> IF q.transmitting THEN "ignored" ELSE "header",
                                    bitSize |-> q.bitSize,
                                    codeRate |-> q.codeRate,
                                    bitErrorSum |-> 0,
                                    rounded |-> 0])]

\* t.eHeaderCompletes: _receive goes on with the payload bit rate.
headerCompletes(p, id) == [p EXCEPT !.rx[id].state = "payload"]

\* t.eCompletes: _onCompletingTransmission changes the received power, then
\* _receive rounds the bit errors and sends the packet on mac or drops it.
transmissionCompletes(p, id, bitErrors) ==
    LET q == receivedPowerChanges(p, bitErrors)
        r == q.rx[id]
        bitErrorSum == PyRound(r.bitErrorSum)
        decision == receiveDecision(bitErrorSum, r.bitSize, r.codeRate)
    IN  IF r.state = "ignored"
        THEN [q EXCEPT !.rx[id].state = "unsensed"]
        ELSE [q EXCEPT !.rx[id].state = decision,
                       !.rx[id].rounded = bitErrorSum,
                       !.macOut = IF decision = "sent" THEN Append(@, id) ELSE @]

\* SimplePhy.__init__ on a frequency band whose devices use an MCS of the
\* given code rate and send packets of the given size: rx lists the
\* transmissions of other devices, macOut the packets sent on the mac port
\* (named by their transmission).
SimplePhyInit(codeRate, bitSize) ==
    [codeRate |-> codeRate,
     bitSize |-> bitSize,
     transmitting |-> FALSE,
     rx |-> <<>>,
     macOut |-> <<>>,
     attenuationChanges |-> 0]

\* ------------------------------------- generator listeners on a gate

\* A module with two generator listeners on one gate, both logging the
\* message and then waiting HandlerTicks: one registered with queued=False and
\* one with queued=True. sent is the history of the messages sent to the gate
\* with their send times; a message is named by its index in sent. Each log
\* holds the invocations started, each active set the invocations running.
ListenerInit ==
    [now |-> 0,
     sent |-> <<>>,
     nqActive |-> {},
     nqLog |-> <<>>,
     qActive |-> {},
     qQueue |-> <<>>,
     qLog |-> <<>>]

\* An invocation of a handler for message index, started now.
Invocation(index, now) == [index |-> index, start |-> now, ends |-> now + HandlerTicks]

\* Variant: the non-queued listener starts an invocation for every message.
nonQueuedSend_AlwaysStarts(l, index) ==
    [l EXCEPT !.nqActive = @ \cup {Invocation(index, l.now)},
              !.nqLog = Append(@, Invocation(index, l.now))]

\* A message reaches the listener registered with queued=False: it is handled
\* if no invocation of the listener is running, and discarded otherwise.
nonQueuedSend(l, index) ==
    IF l.nqActive = {}
    THEN [l EXCEPT !.nqActive = {Invocation(index, l.now)},
                   !.nqLog = Append(@, Invocation(index, l.now))]
    ELSE l

\* Variant: the queued listener discards a message that arrives while an
\* invocation is running.
queuedSend_DiscardsWhenBusy(l, index) ==
    IF l.qActive = {}
    THEN [l EXCEPT !.qActive = {Invocation(index, l.now)},
                   !.qLog = Append(@, Invocation(index, l.now))]
    ELSE l

\* A message reaches the listener registered with queued=True: it is handled
\* at once if no invocation of the listener is running, and buffered
\* otherwise.
queuedSend(l, index) ==
    IF l.qActive = {}
    THEN [l EXCEPT !.qActive = {Invocation(index, l.now)},
                   !.qLog = Append(@, Invocation(index, l.now))]
    ELSE [l EXCEPT !.qQueue = Append(@, index)]

\* gate.input.send(message)
listenerGateSend(l) ==
    LET index == Len(l.sent) + 1
        m == [l EXCEPT !.sent = Append(@, [message |-> index, time |-> l.now])]
    IN  queuedSend(nonQueuedSend(m, index), index)

\* An invocation of the non-queued listener ends.
nonQueuedEnds(l, invocation) == [l EXCEPT !.nqActive = @ \ {invocation}]

\* An invocation of the queued listener ends: the next buffered message, if
\* any, is handled.
queuedEnds(l, invocation) ==
    LET m == [l EXCEPT !.qActive = @ \ {invocation}]
    IN  IF Len(m.qQueue) > 0
        THEN [m EXCEPT !.qActive = @ \cup {Invocation(Head(m.qQueue), m.now)},
                       !.qLog = Append(@, Invocation(Head(m.qQueue), m.now)),
                       !.qQueue = Tail(@)]
        ELSE m

\* ------------------------------------------------------------- SimpleMac

\* One tick of simulated time is one time slot (TIME_SLOT_LENGTH) here.

\* SimpleMac.rrmAddr
rrmAddr == "rrm"

\* The addresses of the two devices that run a SimpleMac.
DeviceAddrs == {"dev1", "dev2"}

\* deque(maxlen=100)
PacketQueueMaxLen == 100

\* A duration that outlasts the run (RECEIVE durations of 10000 in a run of
\* 2000): a timeout event with this much time left is never due.
LongDuration == -1

\* Packet(SimpleMacHeader(sourceMAC, destMAC, flag), payload); ticks is
\* packet.transmissionTime(bitrate) in ticks.
MacPacket(sourceMAC, destMAC, flag, payload, ticks) ==
    [sourceMAC |-> sourceMAC, destMAC |-> destMAC, flag |-> flag,
     payload |-> payload, ticks |-> ticks]

\* SimpleMac.__init__. A RECEIVE command and its timeout event are named by
\* the command's number, 0 standing for None; timers holds the timeout events
\* of RECEIVE commands that have not fired yet; grant is the state of the
\* running invocation of phyPortListener that handles an announcement (None
\* when no invocation runs); phyOut holds the SEND messages handed to the
\* physical layer and not processed yet; processed lists the setProcessed
\* calls on RECEIVE commands.
SimpleMacInit(addr) ==
    [addr |-> addr,
     packetQueue |-> <<>>,
     receiving |-> FALSE,
     receiveCmd |-> 0,
     receiveTimeout |-> 0,
     timers |-> {},
     grant |-> None,
     phyOut |-> <<>>,
     processed |-> <<>>]

\* Message.setProcessed(value) on the RECEIVE command cmd.
setProcessed(m, cmd, value) ==
    [m EXCEPT !.processed = Append(@, [cmd |-> cmd, value |-> value])]

\* SimpleMac._stopReceiving
stopReceiving(m) ==
    [m EXCEPT !.receiveCmd = 0, !.receiving = FALSE, !.receiveTimeout = 0]

\* Variant: the first queued packet is never found to fit.
sendOrIdle_AlwaysIdles(m) == [m EXCEPT !.grant.pc = "idle"]

\* Variant: a packet that takes exactly the time left is transmitted.
sendOrIdle_WhenJustEnough(m) ==
    IF ~(m.grant.left >= Head(m.packetQueue).ticks)
    THEN [m EXCEPT !.grant.pc = "idle"]
    ELSE [m EXCEPT !.packetQueue = Tail(@),
                   !.phyOut = Append(@, Head(m.packetQueue)),
                   !.grant.pc = "send"]

\* The body of the loop of phyPortListener once packets are known to be
\* queued: idle until the grant ends if the first packet does not fit,
\* otherwise hand it to the physical layer and wait for the transmission.
sendOrIdle(m) ==
    IF ~(m.grant.left > Head(m.packetQueue).ticks)
    THEN [m EXCEPT !.grant.pc = "idle"]
    ELSE [m EXCEPT !.packetQueue = Tail(@),
                   !.phyOut = Append(@, Head(m.packetQueue)),
                   !.grant.pc = "send"]

\* The while loop of phyPortListener from its head to its next yield; the
\* invocation ends once the grant's timeout event has been processed.
grantLoop(m) ==
    IF m.grant.processed
    THEN [m EXCEPT !.grant = None]
    ELSE IF Len(m.packetQueue) = 0
         THEN [m EXCEPT !.grant.pc = "wait"]
         ELSE sendOrIdle(m)

\* SimpleMac.phyPortListener
phyPortListener(m, packet) ==
    IF packet.destMAC = m.addr
    THEN IF packet.sourceMAC = rrmAddr
         THEN IF packet.flag = 1
              THEN grantLoop([m EXCEPT !.grant =
                       [left |-> packet.payload, processed |-> FALSE, pc |-> "run"]])
              ELSE m
         ELSE IF m.receiving
              THEN stopReceiving(setProcessed(m, m.receiveCmd, packet.payload))
              ELSE m
    ELSE m

\* PortListener("phy", Packet) on the generator method phyPortListener, which
\* is not queued: a packet that arrives while an invocation runs is discarded.
phyPortDispatch(m, packet) ==
    IF m.grant # None THEN m ELSE phyPortListener(m, packet)

\* SimpleMac.transportPortListener for a RECEIVE message.
transportReceive(m, cmd, duration) ==
    [m EXCEPT !.receiveCmd = cmd,
              !.receiving = TRUE,
              !.receiveTimeout = cmd,
              !.timers = @ \cup {[id |-> cmd, left |-> duration]}]

\* Variant: a packet submitted to a full queue is dropped itself.
transportPacket_NewestDropped(m, destMAC, payload, ticks) ==
    LET packet == MacPacket(m.addr, destMAC, 0, payload, ticks)
        queue == IF Len(m.packetQueue) = PacketQueueMaxLen
                 THEN m.packetQueue
                 ELSE Append(m.packetQueue, packet)
    IN  [m EXCEPT !.packetQueue = queue]

\* SimpleMac.transportPortListener for a Packet: the packet is queued and
\* _packetAddedEvent succeeds, which resumes an invocation of phyPortListener
\* that waits for it.
transportPacket(m, destMAC, payload, ticks) ==
    LET packet == MacPacket(m.addr, destMAC, 0, payload, ticks)
        queue == IF Len(m.packetQueue) = PacketQueueMaxLen
                 THEN Append(Tail(m.packetQueue), packet)
                 ELSE Append(m.packetQueue, packet)
        queued == [m EXCEPT !.packetQueue = queue]
    IN  IF m.grant # None
        THEN IF m.grant.pc = "wait"
             THEN IF m.grant.processed THEN grantLoop(queued) ELSE sendOrIdle(queued)
             ELSE queued
        ELSE queued

\* SimpleMac._receiveTimeoutCallback, called when the timeout event fires.
receiveTimeoutCallback(m, timer) ==
    LET fired == [m EXCEPT !.timers = @ \ {timer}]
    IN  IF timer.id = m.receiveTimeout
        THEN stopReceiving(setProcessed(fired, fired.receiveCmd, None))
        ELSE fired

\* The timeout event of the grant is processed: an invocation that waits for
\* it (alone or together with _packetAddedEvent) goes on at the loop's head.
grantTimeoutFires(m) ==
    LET fired == [m EXCEPT !.grant.processed = TRUE]
    IN  IF m.grant.pc \in {"wait", "idle"} THEN grantLoop(fired) ELSE fired

\* message.eProcessed of the SEND message fires.
sendProcessed(m) == grantLoop([m EXCEPT !.phyOut = Tail(@)])

\* Some timeout event of the layer is due now.
macDue(m) ==
    \/ \E timer \in m.timers : timer.left = 0
    \/ m.grant # None /\ ~m.grant.processed /\ m.grant.left = 0

\* One tick of simulated time passes for the layer's timeout events.
macTick(m) ==
    [m EXCEPT !.timers = {[timer EXCEPT !.left = IF @ = LongDuration THEN @ ELSE @ - 1] :
                             timer \in @},
              !.grant = IF @ = None \/ @.processed THEN @
                        ELSE [@ EXCEPT !.left = @ - 1]]

\* ---------------------------------------------------------- SimpleRrmMac

\* The stations of the polled protocol: two devices and the resource manager.
Stations == DeviceAddrs \cup {rrmAddr}

\* The other device.
Peer(d) == CHOOSE e \in DeviceAddrs : e # d

\* SimpleRrmMac.__init__ with the process that hands it ASSIGN messages: pc is
\* the position of _sendAnnouncement, turn the destination of the ASSIGN
\* message it handles, left the time left of its timeout.
SimpleRrmMacInit == [pc |-> "idle", turn |-> "dev1", left |-> 0]

\* SimpleRrmMac._sendAnnouncement up to its first yield: the announcement
\* handed to the physical layer.
announcement(r, duration) == MacPacket(rrmAddr, r.turn, 1, duration, AnnouncementTicks)

\* Variant: the resource manager waits for the time granted and no longer.
announcementSent_NoExtraSlot(r, duration) == [r EXCEPT !.pc = "guard", !.left = duration]

\* SimpleRrmMac._sendAnnouncement after sendCmd.eProcessed: one time slot
\* more than the grant is waited for.
announcementSent(r, duration) == [r EXCEPT !.pc = "guard", !.left = duration + 1]

\* SimpleRrmMac._sendAnnouncement after its timeout: the ASSIGN message is
\* processed, and the next one, for the other device, is handled.
assignProcessed(r) == [r EXCEPT !.pc = "idle", !.turn = Peer(@)]

\* SimplePhy.macPortListener up to its first yield: the transmission of the
\* packet starts at the next time slot, wait ticks from now.
phySend(packet, wait) ==
    [packet |-> packet, pc |-> "slot", left |-> wait, sensedBy |-> {}, collided |-> FALSE]

\* The station is transmitting.
OnAir(tx, s) == tx[s] # None /\ tx[s].pc = "air"

\* SimplePhy.macPortListener at the time slot: the transmission of station s
\* starts. It is sensed by the stations that are not transmitting, and it
\* overlaps the transmissions that are on the air.
phyTransmit(tx, s) ==
    LET others == {r \in Stations \ {s} : OnAir(tx, r)}
    IN  [r \in Stations |->
            IF r = s
            THEN [tx[s] EXCEPT !.pc = "air",
                               !.left = tx[s].packet.ticks,
                               !.sensedBy = Stations \ ({s} \cup others),
                               !.collided = others # {}]
            ELSE IF r \in others THEN [tx[r] EXCEPT !.collided = TRUE]
            ELSE tx[r]]

\* The devices whose physical layer hands the packet of a completed
\* transmission to the MAC layer: those that sensed it, unless it overlapped
\* another transmission.
Receivers(t) == IF t.collided THEN {} ELSE t.sensedBy \cap DeviceAddrs

\* ----------------------------------- phyInGateListener of the TDMA MAC layers

\* The classes of the headers of the packets a physical layer may hand up.
HeaderClasses == {"NCSMacHeader", "SimpleMacHeader"}

\* The outcome of a listener call: the layer afterwards and whether the call
\* raised.
Returned(layer) == [layer |-> layer, raised |-> FALSE]

Raised(layer) == [layer |-> layer, raised |-> TRUE]

\* Variant: the sensor checks the header before its receiving mode.
sensorPhyInGateListener_ChecksHeaderFirst(s, class, packet) ==
    IF class # "NCSMacHeader" THEN Raised(s) ELSE Returned(SensorPhyIn(s, packet))

\* SensorMacTDMA.phyInGateListener with its check of the header's class,
\* which is made in receiving mode only.
sensorPhyInGateListener(s, class, packet) ==
    IF s.receiving
    THEN IF class # "NCSMacHeader" THEN Raised(s) ELSE Returned(SensorPhyIn(s, packet))
    ELSE Returned(s)

\* ActuatorMacTDMA.phyInGateListener with its check of the header's class.
actuatorPhyInGateListener(a, class, packet) ==
    IF class # "NCSMacHeader" THEN Raised(a) ELSE Returned(ActuatorPhyIn(a, packet))

\* GatewayMac.__init__
GatewayMacInit(addr) == [addr |-> addr, receivingMode |-> FALSE]

\* GatewayMac.phyInGateListener: sensor data is logged, everything else passed
\* over.
gatewayPhyInGateListener(g, class, packet) ==
    IF class # "NCSMacHeader" THEN Raised(g) ELSE Returned(g)

\* ------------------------------------------------ MAC address generators

\* bytearray(6) with addr[5] = value; the assignment raises ValueError unless
\* value is in range(256).  A raised call returns nothing.
AddressWithLastByte(value) ==
    IF value \in 0..255 THEN <<0, 0, 0, 0, 0, value>> ELSE None

\* int.from_bytes(addr, "big")
RECURSIVE AddressValue(_)
AddressValue(addr) ==
    IF addr = <<>> THEN 0
    ELSE 256 * AddressValue(SubSeq(addr, 1, Len(addr) - 1)) + addr[Len(addr)]

\* newUniqueMacAddress and SimpleMac.newMacAddress: the counter is increased
\* first and put into the last byte; addr is None when the call raised.
newUniqueMacAddress(macCounter) ==
    [counter |-> macCounter + 1,
     addr |-> AddressWithLastByte(macCounter + 1)]

newMacAddress(macCounter) == newUniqueMacAddress(macCounter)

\* ------------------------- Gateway._gateway (TDMA, round robin) and BAEnvironment

\* BAEnvironment.initialize followed by Gateway.__init__, which starts the
\* gateway process: i and t are the loop counters of _gateway, avgloss its
\* list of episode results, schedules the number of schedules handed to the
\* MAC layer, episodes the value of schedules at each trigger of
\* episode_done_event, dones the number of triggers of done_event.
EnvInit(episodes, horizon) ==
    [episodes |-> episodes, horizon |-> horizon,
     pc |-> "start", i |-> 0, t |-> 0, avgloss |-> <<>>,
     schedules |-> 0, send_schedule_amount |-> 0,
     episode_dones |-> <<>>, dones |-> 0, is_done |-> FALSE]

\* BAEnvironment.done: sum(msg)/len(msg) first, is_done = True last.  The
\* exception of an empty msg ends the gateway process, which is the caller.
done(e, msg) ==
    IF Len(msg) = 0
    THEN [e EXCEPT !.pc = "raised"]
    ELSE [e EXCEPT !.is_done = TRUE, !.pc = "finished"]

\* The end of the loop over the episodes: done_event.trigger(avgloss).
gatewayLoopEnds(e) == done([e EXCEPT !.dones = @ + 1], e.avgloss)

\* The head of the loop over the episodes, and of the loop over the horizon
\* when an episode begins: with a horizon of 0 the inner loop is empty and
\* cum_loss / horizon raises ZeroDivisionError.
gatewayNextEpisode(e) ==
    IF e.i = e.episodes THEN gatewayLoopEnds(e)
    ELSE IF e.horizon = 0 THEN [e EXCEPT !.pc = "raised"]
    ELSE [e EXCEPT !.t = 0, !.pc = "schedule"]

\* The end of an episode: the average loss is appended, episode_done_event is
\* triggered (BAEnvironment.episode_done resets plants, sensors and the
\* scheduler), then the next episode begins.
gatewayEpisodeEnds(e) ==
    gatewayNextEpisode([e EXCEPT
        !.avgloss = Append(@, e.i),
        !.episode_dones = Append(@, e.schedules),
        !.i = @ + 1])

\* One pass of the inner loop up to `yield send_cmd.eProcessed`: the next
\* schedule is handed to the MAC layer.
gatewaySendsSchedule(e) ==
    [e EXCEPT !.schedules = @ + 1, !.pc = "eProcessed"]

\* After send_cmd.eProcessed: up to `yield SimMan.timeoutUntil(...)`.
gatewayScheduleProcessed(e) ==
    [e EXCEPT !.send_schedule_amount = @ + 1, !.pc = "timeoutUntil"]

\* After the timeout: the reward is taken and the inner loop goes on or ends.
gatewayTimeoutUntil(e) ==
    IF e.t + 1 < e.horizon
    THEN [e EXCEPT !.t = @ + 1, !.pc = "schedule"]
    ELSE gatewayEpisodeEnds([e EXCEPT !.t = @ + 1])

\* ------------------------------------------- Port: the order of the calls

DestNames == <<"cb1", "cb2", "cb3", "cb4">>

Dests == {DestNames[i] : i \in 1..NumDests}

\* The orders in which the callables of a set can come up.
HashOrders == {o \in [1..NumDests -> Dests] : \A d \in Dests : \E i \in 1..NumDests : o[i] = d}

\* Port.__init__: _onSendCallables = set().  hashOrder is the order the
\* interpreter's hashes of the callables (derived from their addresses) give
\* them in a set; it is fixed for a run and not the same in every run.
PortInit(hashOrder) == [onSendCallables |-> {}, hashOrder |-> hashOrder]

\* Port._addDest(dest): self._onSendCallables.add(dest)
addDest(port, dest) == [port EXCEPT !.onSendCallables = @ \cup {dest}]

RECURSIVE Iterate(_, _, _)
\* `for send in self._onSendCallables`: the members in the order of the set.
Iterate(members, hashOrder, i) ==
    IF i > Len(hashOrder) THEN <<>>
    ELSE (IF hashOrder[i] \in members THEN <<hashOrder[i]>> ELSE <<>>)
             \o Iterate(members, hashOrder, i + 1)

\* Port.send(message): the calls made, in order.
portSendCalls(port, message) ==
    [i \in 1..Cardinality(port.onSendCallables) |->
        <<Iterate(port.onSendCallables, port.hashOrder, 1)[i], message>>]

\* ------------------------------------------- SimplePhy._receive in time

\* _receive(t) up to `yield t.eHeaderCompletes` for a transmission that
\* starts at time 0: the local variables of the process.  Bit error rates
\* are counted in half bit errors per bit, so bitErrorSum is in half bits.
\* expected, since and sinceRate hold what the piecewise sum over the
\* intervals between power changes comes to: the sum up to the time since,
\* each part of an interval at the bit rate of its phase.
ReceiveInit(headerTicks, payloadTicks, bitrateHeader, bitratePayload, bitErrorRate) ==
    [now |-> 0,
     headerStopTime |-> headerTicks,
     stopTime |-> headerTicks + payloadTicks,
     bitrateHeader |-> bitrateHeader,
     bitratePayload |-> bitratePayload,
     phase |-> "header",
     currentBitRate |-> bitrateHeader,
     bitErrorSum |-> 0,
     bitErrorRate |-> bitErrorRate,
     lastLevelChange |-> 0,
     rounded |-> 0,
     changes |-> 0,
     expected |-> 0,
     since |-> 0]

\* The piecewise sum brought up to now at the bit rate of the phase that ends
\* or goes on.
Accounted(r, rate) ==
    [r EXCEPT !.expected = @ + r.bitErrorRate * (r.now - r.since) * rate,
              !.since = r.now]

\* onReceivedPowerChange(delta) of _receive; newRate is what
\* updateBitErrorRate computes.  lastLevelChange is read and never assigned.
onReceivedPowerChange(r, delta, newRate) ==
    IF delta # 0
    THEN LET prevPowerDuration == r.now - r.lastLevelChange
             bitErrors == r.bitErrorRate * prevPowerDuration * r.currentBitRate
             q == Accounted(r, r.currentBitRate)
         IN  [q EXCEPT !.bitErrorSum = @ + bitErrors,
                       !.bitErrorRate = IF r.now >= r.stopTime THEN @ ELSE newRate,
                       !.changes = @ + 1]
    ELSE r

\* After `yield t.eHeaderCompletes`: currentBitRate = t.bitratePayload
receiveHeaderCompleted(r) ==
    [Accounted(r, r.bitrateHeader) EXCEPT
        !.currentBitRate = r.bitratePayload, !.phase = "payload"]

\* t.eCompletes: _onCompletingTransmission triggers the power change of the
\* completing transmission, whose received power is not 0, then _receive
\* goes on after `yield t.eCompletes` and rounds.
receiveCompleted(r) ==
    LET q == onReceivedPowerChange(r, -1, r.bitErrorRate)
    IN  [q EXCEPT !.rounded = PyRound(q.bitErrorSum), !.phase = "done"]

\* --------------------------------- SimplePhy: sending, sensing, power

\* SimplePhy.__init__ at time 0 with the given thermal noise power (powers are
\* counted in multiples of the thermal noise power of the band).  txs are
\* the transmissions started on the frequency band, own and others'; a
\* transmission is named by its index.  cmds are the SEND commands received
\* with their times of arrival, queue the ones waiting for macPortListener,
\* pc the yield macPortListener is at.
RadioInit(thermalNoisePower) ==
    [now |-> 0,
     thermalNoisePower |-> thermalNoisePower,
     receivedPower |-> thermalNoisePower,
     transmissionToReceivedPowerDict |-> <<>>,
     transmitting |-> FALSE,
     currentTransmission |-> 0,
     pc |-> "idle",
     cmd |-> 0,
     wake |-> 0,
     queue |-> <<>>,
     cmds |-> <<>>,
     txs |-> <<>>,
     macOut |-> <<>>,
     attenuationChanges |-> 0]

\* TIME_SLOT_LENGTH, in ticks.
RadioSlotTicks == 2

\* SimMan.nextTimeSlot(TIME_SLOT_LENGTH): the time of the event, the next
\* multiple of the slot length; at a boundary the boundary itself or the
\* next one.
NextTimeSlots(now) ==
    IF now % RadioSlotTicks = 0
    THEN {now, now + RadioSlotTicks}
    ELSE {now + RadioSlotTicks - (now % RadioSlotTicks)}

\* macPortListener(cmd) up to `yield SimMan.nextTimeSlot(TIME_SLOT_LENGTH)`.
macPortListenerStarts(r, cmd, wake) ==
    [r EXCEPT !.pc = "nextTimeSlot", !.cmd = cmd, !.wake = wake]

\* The mac port passes a SEND command to the queued listener: the listener
\* takes it at once when it is idle, otherwise the command waits.
macPortSend(r, wake) ==
    LET cmd == Len(r.cmds) + 1
        q == [r EXCEPT !.cmds = Append(@, [arrived |-> r.now, processed |-> FALSE,
                                           processedAt |-> 0, tx |-> 0])]
    IN  IF r.pc = "idle"
        THEN macPortListenerStarts(q, cmd, wake)
        ELSE [q EXCEPT !.queue = Append(@, cmd)]

\* The queued listener has returned: it takes the command that has waited
\* longest, if there is one.
macPortListenerReturns(r, wake) ==
    IF r.queue = <<>>
    THEN [r EXCEPT !.pc = "idle", !.cmd = 0]
    ELSE macPortListenerStarts([r EXCEPT !.queue = Tail(@)], Head(r.queue), wake)

\* FrequencyBand.transmit as far as this layer sees it: the transmission is
\* on the band, its nNewTransmission trigger is still to come.
bandTransmit(r, sender, power, duration) ==
    [r EXCEPT !.txs = Append(@, [sender |-> sender, power |-> power,
                                 startTime |-> r.now, stopTime |-> r.now + duration,
                                 announced |-> FALSE, ended |-> FALSE,
                                 state |-> "none", sentMeanwhile |-> FALSE])]

\* Variant: the layer is not marked as transmitting.
macPortListenerTransmits_Unmarked(r, power, duration) ==
    LET q == bandTransmit(r, "self", power, duration)
    IN  [q EXCEPT !.currentTransmission = Len(q.txs),
                  !.cmds[r.cmd].tx = Len(q.txs),
                  !.pc = "eCompletes"]

\* macPortListener from the time slot event to `yield t.eCompletes`.
\* sentMeanwhile notes, for the receptions going on, that the device sends.
macPortListenerTransmits(r, power, duration) ==
    LET q == bandTransmit(r, "self", power, duration)
    IN  [q EXCEPT !.transmitting = TRUE,
                  !.currentTransmission = Len(q.txs),
                  !.cmds[r.cmd].tx = Len(q.txs),
                  !.pc = "eCompletes",
                  !.txs = [i \in DOMAIN q.txs |->
                             IF q.txs[i].state = "receiving"
                             THEN [q.txs[i] EXCEPT !.sentMeanwhile = TRUE]
                             ELSE q.txs[i]]]

\* macPortListener after `yield t.eCompletes`, and its return.
macPortListenerCompletes(r, wake) ==
    macPortListenerReturns(
        [r EXCEPT !.transmitting = FALSE,
                  !.txs[r.currentTransmission].ended = TRUE,
                  !.cmds[r.cmd].processed = TRUE,
                  !.cmds[r.cmd].processedAt = r.now],
        wake)

\* updateReceivedPower(delta), the first subscriber of _nReceivedPowerChanges
updateReceivedPower(r, delta) == [r EXCEPT !.receivedPower = @ + delta]

\* Variant: the layer's own transmission is recorded like any other.
onNewTransmission_OwnIncluded(r, t) ==
    updateReceivedPower(
        [r EXCEPT !.transmissionToReceivedPowerDict = (t :> r.txs[t].power) @@ @],
        r.txs[t].power)

\* SimplePhy._onNewTransmission(t)
onNewTransmission(r, t) ==
    IF t # r.currentTransmission
    THEN updateReceivedPower(
             [r EXCEPT !.transmissionToReceivedPowerDict = (t :> r.txs[t].power) @@ @],
             r.txs[t].power)
    ELSE r

\* SimplePhy._receive(t) up to its first yield.
receiveStarts(r, t) ==
    [r EXCEPT !.txs[t].state = IF r.transmitting THEN "ignored" ELSE "receiving"]

\* nNewTransmission.trigger(t): the callback, then the process.
newTransmissionTriggered(r, t) ==
    receiveStarts(onNewTransmission([r EXCEPT !.txs[t].announced = TRUE], t), t)

\* SimplePhy._onAttenuationChange(t, attenuation), newReceivedPower being
\* the power the new attenuation gives.
onAttenuationChange(r, t, newReceivedPower) ==
    updateReceivedPower(
        [r EXCEPT !.transmissionToReceivedPowerDict[t] = newReceivedPower],
        newReceivedPower - r.transmissionToReceivedPowerDict[t])

\* SimplePhy._onCompletingTransmission for the transmission t
onCompletingTransmission(r, t) ==
    updateReceivedPower(
        [r EXCEPT !.transmissionToReceivedPowerDict =
             [u \in DOMAIN @ \ {t} |-> @[u]]],
        -r.transmissionToReceivedPowerDict[t])

\* SimplePhy._receive(t) after `yield t.eCompletes`; correctable tells whether
\* the bit error rate is within maxCorrectableBer.
receiveCompletes(r, t, correctable) ==
    IF r.txs[t].state = "receiving"
    THEN IF correctable
         THEN [r EXCEPT !.txs[t].state = "sent", !.macOut = Append(@, t)]
         ELSE [r EXCEPT !.txs[t].state = "dropped"]
    ELSE r

\* t.eCompletes of a transmission of another device: the callback that
\* _onNewTransmission has appended, then the _receive process.
otherTransmissionCompletes(r, t, correctable) ==
    receiveCompletes(onCompletingTransmission([r EXCEPT !.txs[t].ended = TRUE], t),
                     t, correctable)

\* -------------------------------------------------------- CounterTrafficEnv

COUNTER_BYTE_LENGTH == 2

COUNTER_BOUND == 2 ^ (BitsPerByte * COUNTER_BYTE_LENGTH)

\* IntTransmittable(byteLength, value); rejects tells whether the class
\* refuses a value that does not fit in byteLength bytes by raising.
IntTransmittable(byteLength, value, rejects) ==
    IF rejects /\ value >= 2 ^ (BitsPerByte * byteLength)
    THEN [raised |-> TRUE, value |-> value]
    ELSE [raised |-> FALSE, value |-> value]

\* SenderDevice.__init__; sent holds the counter values handed to send, and
\* ended tells that senderProcess was ended by an exception.
SenderDeviceInit == [counter |-> 1, sent |-> {}, ended |-> FALSE]

\* One pass of the while loop of SenderDevice.senderProcess, up to its yield.
senderProcess(sender, rejects) ==
    LET data == IntTransmittable(COUNTER_BYTE_LENGTH, sender.counter, rejects)
    IN  IF data.raised
        THEN [sender EXCEPT !.ended = TRUE]
        ELSE [sender EXCEPT
                 !.sent = @ \cup {data.value},
                 !.counter = IF sender.counter < COUNTER_BOUND THEN @ + 1 ELSE @]

\* CounterTrafficInterpreter.reset
interpreterReset ==
    [latestDifference |-> 0, receivedValues |-> <<0, 0>>, done |-> FALSE]

\* CounterTrafficInterpreter.onPacketReceived(senderIndex, receiverIndex,
\* payload) with payload.value = value; senderIndex is 0 or 1.
onPacketReceived(interpreter, senderIndex, value) ==
    LET receivedValues == [interpreter.receivedValues EXCEPT ![senderIndex + 1] = value]
    IN  [interpreter EXCEPT
            !.receivedValues = receivedValues,
            !.latestDifference = receivedValues[1] - receivedValues[2],
            !.done = IF value = COUNTER_BOUND THEN TRUE ELSE @]

\* CounterTrafficInterpreter.getObservation
getObservation(interpreter) == interpreter.latestDifference + COUNTER_BOUND

\* CounterTrafficEnv.__init__
CounterTrafficEnvInit(rejects) ==
    [rejects |-> rejects,
     senders |-> <<SenderDeviceInit, SenderDeviceInit>>,
     interpreter |-> interpreterReset,
     lastOp |-> [op |-> "none"]]

\* CounterTrafficEnv.reset
counterReset(e) ==
    [e EXCEPT !.senders = [i \in 1..2 |-> [e.senders[i] EXCEPT !.counter = 0]],
              !.interpreter = interpreterReset,
              !.lastOp = [op |-> "reset", value |-> getObservation(interpreterReset)]]

\* ------------------------------------------------------- states at rest

NoCall == [op |-> "none"]

\* No schedule object exists.
IdleSchedule ==
    /\ action = <<>>
    /\ schedule = <<>>
    /\ string = <<>>
    /\ length = 0
    /\ kind = "none"
    /\ result = NoCall

\* No round-robin scheduler exists.
IdleRoundRobin ==
    /\ devices = <<>>
    /\ actuators = {}
    /\ timeslots = 0
    /\ nextDevice = 0
    /\ wasActuator = FALSE
    /\ slotLog = <<>>

Devices == {MacNames[i] : i \in 1..NumDevices}

PairSets == {{a, b} : a \in Devices, b \in Devices}

\* AttenuationModelFactory.__init__: the cache is empty.
IdleFactory ==
    /\ instances = <<>>
    /\ created = [p \in PairSets |-> 0]
    /\ returned = {}
    /\ attResult = NoCall

\* No networking component exists.
IdleCore ==
    /\ sensor = None
    /\ actuator = None
    /\ gates = None
    /\ listener = None
    /\ band = None
    /\ phy = None
    /\ mac = None
    /\ polled = None

IdleMore ==
    /\ tdma = None
    /\ addrgen = None
    /\ env = None
    /\ radio = None
    /\ reception = None
    /\ joined = None
    /\ counter = None

IdleNetwork == IdleCore /\ IdleMore

\* ----------------------------------------------- the schedule specification

Flags == {0, 1}

RECURSIVE SeqsUpTo(_, _)
SeqsUpTo(S, n) ==
    IF n = 0 THEN {<<>>}
    ELSE LET shorter == SeqsUpTo(S, n - 1)
         IN  shorter \cup {Append(s, x) : s \in {t \in shorter : Len(t) = n - 1}, x \in S}

ActionLists == SeqsUpTo(Macs \X Flags, MaxSlots)

InitSchedule == IdleSchedule /\ IdleRoundRobin /\ IdleFactory /\ IdleNetwork

\* TDMASchedule(a)
NewTDMASchedule ==
    /\ kind = "none"
    /\ \E a \in ActionLists :
         LET s == TDMAScheduleInit(a)
         IN  /\ action' = s.action
             /\ schedule' = s.schedule
             /\ string' = s.string
    /\ kind' = "TDMA"
    /\ UNCHANGED <<length, result, rrVars, attVars, netVars, moreVars>>

\* schedule.get_next_relevant_timespan(mac_address, last_step)
CallGetNextRelevantTimespan ==
    /\ kind = "TDMA"
    /\ result = NoCall
    /\ \E m \in Macs, asText \in BOOLEAN, last_step \in 0..(MaxSlots + 1) :
         LET mac_address == IF asText THEN Str(m) ELSE m
         IN  result' = [op |-> "get_next_relevant_timespan",
                        mac_address |-> mac_address,
                        last_step |-> last_step,
                        value |-> get_next_relevant_timespan(string, mac_address, last_step)]
    /\ UNCHANGED <<schedVars, rrVars, attVars, netVars, moreVars>>

\* schedule.get_end_time()
CallGetEndTime ==
    /\ kind = "TDMA"
    /\ result = NoCall
    /\ result' = [op |-> "get_end_time", value |-> get_end_time(string)]
    /\ UNCHANGED <<schedVars, rrVars, attVars, netVars, moreVars>>

\* tdma_encode(schedule, compressed)
CallTdmaEncode ==
    /\ kind = "TDMA"
    /\ result = NoCall
    /\ \E compressed \in BOOLEAN :
         result' = [op |-> "tdma_encode",
                    compressed |-> compressed,
                    value |-> tdma_encode(schedule, action, compressed)]
    /\ UNCHANGED <<schedVars, rrVars, attVars, netVars, moreVars>>

\* The caller has used the return value; the schedule is unchanged and the
\* next call can be made.
Return ==
    /\ result # NoCall
    /\ result' = NoCall
    /\ UNCHANGED <<schedVars, rrVars, attVars, netVars, moreVars>>

NextSchedule ==
    \/ NewTDMASchedule
    \/ Return
    \/ CallGetNextRelevantTimespan
    \/ CallGetEndTime
    \/ CallTdmaEncode

SpecSchedule == InitSchedule /\ [][NextSchedule]_vars

\* --------------------------------------------------- the CSMA specification

\* Probabilities in tenths: 3 is 0.3 and 10 is 1.0.
Tenths == 0..10

\* The lists [(MAC1, p1), ..., (MACn, pn)] of up to MaxPairs devices.
CsmaActionLists ==
    UNION {[1..n -> Tenths] : n \in 0..MaxPairs}

CsmaAction(probs) == [i \in 1..Len(probs) |-> <<Bytes(MacNames[i]), probs[i]>>]

InitCSMA == IdleSchedule /\ IdleRoundRobin /\ IdleFactory /\ IdleNetwork

\* CSMASchedule(a, len)
NewCSMASchedule ==
    /\ kind = "none"
    /\ \E probs \in CsmaActionLists, len \in 1..MaxSlots :
         LET s == CSMAScheduleInit(CsmaAction(probs), len)
         IN  /\ action' = s.action
             /\ length' = s.length
             /\ schedule' = s.schedule
             /\ string' = s.string
    /\ kind' = "CSMA"
    /\ UNCHANGED <<result, rrVars, attVars, netVars, moreVars>>

\* csma_encode(schedule)
CallCsmaEncode ==
    /\ kind = "CSMA"
    /\ result = NoCall
    /\ result' = [op |-> "csma_encode", value |-> csma_encode(schedule)]
    /\ UNCHANGED <<schedVars, rrVars, attVars, netVars, moreVars>>

NextCSMA ==
    \/ NewCSMASchedule
    \/ CallCsmaEncode

SpecCSMA == InitCSMA /\ [][NextCSMA]_vars

\* -------------------------------------------- the round-robin specification

RRMacs == {Bytes(MacNames[i]) : i \in 1..NumDevices}

\* The non-empty lists of MAC addresses of length up to NumDevices; an address
\* may be listed more than once.
DeviceLists == {l \in SeqsUpTo(RRMacs, NumDevices) : Len(l) >= 1}

\* RoundRobinTDMAScheduler(devices, sensors, actuators, timeslots)
InitRoundRobin ==
    /\ IdleSchedule
    /\ IdleFactory
    /\ IdleNetwork
    /\ devices \in DeviceLists
    /\ actuators \in SUBSET RRMacs
    /\ timeslots \in 1..MaxTimeslots
    /\ nextDevice = 0
    /\ wasActuator = FALSE
    /\ slotLog = <<>>

\* scheduler.next_schedule()
CallNextSchedule ==
    /\ Len(slotLog) + timeslots <= MaxTotalSlots
    /\ LET st == next_schedule(devices, actuators, timeslots, nextDevice, wasActuator)
           s  == TDMAScheduleInit(st.action)
       IN  /\ nextDevice' = st.nextDevice
           /\ wasActuator' = st.wasActuator
           /\ slotLog' = slotLog \o st.action
           /\ action' = s.action
           /\ schedule' = s.schedule
           /\ string' = s.string
           /\ kind' = "TDMA"
    /\ UNCHANGED <<length, result, devices, actuators, timeslots, attVars, netVars, moreVars>>

NextRoundRobin == CallNextSchedule

SpecRoundRobin == InitRoundRobin /\ [][NextRoundRobin]_vars

\* ------------------------------------- the control-slot specification

\* The values Gateway._schedule_handler passes as last_control_slot: 0 at
\* first, then the slot token of the last line returned.
LastControlSlots ==
    {[int |-> 0]} \cup {[str |-> IntToStr(n)] : n \in 1..MaxTimeslots}

\* scheduler.get_next_control_slot(last_control_slot)
CallGetNextControlSlot ==
    /\ kind = "TDMA"
    /\ \E last \in LastControlSlots :
         LET r == get_next_control_slot(string, actuators, last)
         IN  result' = [op |-> "get_next_control_slot",
                        last_control_slot |-> last,
                        schedule |-> schedule,
                        raised |-> r.raised,
                        value |-> r.value]
    /\ UNCHANGED <<schedVars, rrVars, attVars, netVars, moreVars>>

NextControlSlots ==
    \/ CallNextSchedule
    \/ CallGetNextControlSlot

SpecControlSlots == InitRoundRobin /\ [][NextControlSlots]_vars

\* ------------------------------------- the attenuation-model specification

InitAttenuation == IdleSchedule /\ IdleRoundRobin /\ IdleFactory /\ IdleNetwork

\* frequencyBand.getAttenuationModel(deviceA, deviceB)
CallGetAttenuationModel ==
    /\ \E deviceA \in Devices, deviceB \in Devices :
         LET r == getInstance(instances, created, deviceA, deviceB)
         IN  /\ instances' = r.cache
             /\ created' = [p \in PairSets |->
                              IF p \in r.constructed THEN created[p] + 1 ELSE created[p]]
             /\ returned' = IF r.ok
                            THEN returned \cup {<<deviceA, deviceB, r.value>>}
                            ELSE returned
             /\ attResult' = [op |-> "getAttenuationModel",
                              deviceA |-> deviceA,
                              deviceB |-> deviceB,
                              ok |-> r.ok,
                              value |-> r.value]
    /\ UNCHANGED <<schedVars, result, rrVars, netVars, moreVars>>

NextAttenuation == CallGetAttenuationModel

SpecAttenuation == InitAttenuation /\ [][NextAttenuation]_vars

\* ------------------------------------------- the sensor-MAC specification

MacActionLists == SeqsUpTo(Macs \X Flags, MaxMacSlots)

\* The packets a sensor's physical layer hands up: schedules of the gateway,
\* data of other sensors and control packets.
SensorPackets ==
    {SchedulePacket(Bytes("G"), TDMAScheduleInit(a), c) : a \in MacActionLists, c \in 0..MaxClock}
        \cup {DataPacket(m, d) : m \in Macs, d \in SensorData}

InitSensorMac ==
    /\ IdleSchedule
    /\ IdleRoundRobin
    /\ IdleFactory
    /\ sensor \in {SensorMacInit(m) : m \in Macs}
    /\ actuator = None /\ gates = None /\ listener = None /\ band = None
    /\ phy = None /\ mac = None /\ polled = None
    /\ IdleMore

\* A packet arrives from the physical layer. A schedule stamped with clock c
\* arrives before slot 1 of that schedule begins.
SensorReceivesPacket ==
    /\ sensor.pc # "crashed"
    /\ \E packet \in SensorPackets :
         \E time \in sensor.now..(MaxClock + TicksPerSlot) :
            /\ packet.type = 0 =>
                  (packet.trailer <= time /\ time <= packet.trailer + TicksPerSlot)
            /\ sensor.pc # "idle" => time = sensor.now
            /\ sensor' = SensorPhyIn([sensor EXCEPT !.now = time], packet)
    /\ UNCHANGED notSensor

\* The network layer hands over a new sensor value.
SensorReceivesData ==
    /\ sensor.pc # "crashed"
    /\ \E data \in SensorData : sensor' = SensorNetworkIn(sensor, data)
    /\ UNCHANGED notSensor

\* Simulated time reaches the start of the slot _senddata waits for.
SensorSlotBegins ==
    /\ sensor.pc = "waitSlot"
    /\ sensor' = SenddataSlot(sensor)
    /\ UNCHANGED notSensor

\* The physical layer has sent the packet, within the slot.
SensorSendCompletes ==
    /\ sensor.pc = "waitProcessed"
    /\ \E duration \in 1..(TicksPerSlot - 1) :
         sensor' = SenddataProcessed(sensor, duration)
    /\ UNCHANGED notSensor

NextSensorMac ==
    \/ SensorReceivesPacket
    \/ SensorReceivesData
    \/ SensorSlotBegins
    \/ SensorSendCompletes

SpecSensorMac == InitSensorMac /\ [][NextSensorMac]_vars

\* The same with the scheduling of the simulation: a timeout that _senddata
\* waits for fires, and the physical layer processes every SEND command.
SpecSensorMacFair ==
    /\ InitSensorMac
    /\ [][NextSensorMac]_vars
    /\ WF_vars(SensorSlotBegins)
    /\ WF_vars(SensorSendCompletes)

\* ----------------------------------------- the actuator-MAC specification

\* The packets an actuator's physical layer hands up: schedules and control
\* packets of the gateway, and type-1 packets with or without a destination.
ActuatorPackets ==
    {SchedulePacket(Bytes("G"), TDMAScheduleInit(a), c) :
        a \in {l \in MacActionLists : Len(l) <= 1}, c \in 0..MaxClock}
        \cup {DataPacket(m, d) : m \in Macs, d \in SensorData}
        \cup {[DataPacket(m, d) EXCEPT !.destMAC = dest] :
                 m \in Macs, d \in SensorData, dest \in Macs}
        \cup {ControlPacket(Bytes("G"), dest, u) : dest \in Macs, u \in ControlData}

InitActuatorMac ==
    /\ IdleSchedule
    /\ IdleRoundRobin
    /\ IdleFactory
    /\ actuator \in {ActuatorMacInit(m) : m \in Macs}
    /\ sensor = None /\ gates = None /\ listener = None /\ band = None
    /\ phy = None /\ mac = None /\ polled = None
    /\ IdleMore

\* A packet arrives from the physical layer.
ActuatorReceivesPacket ==
    /\ actuator.received < MaxActuatorPackets
    /\ \E packet \in ActuatorPackets : actuator' = ActuatorPhyIn(actuator, packet)
    /\ UNCHANGED notActuator

NextActuatorMac == ActuatorReceivesPacket

SpecActuatorMac == InitActuatorMac /\ [][NextActuatorMac]_vars

\* ------------------------------------------------ the gate specification

GateMessages == {"msg1", "msg2"}

InitGates ==
    /\ IdleSchedule
    /\ IdleRoundRobin
    /\ IdleFactory
    /\ gates \in {GatesInit(withCallback) : withCallback \in SUBSET Gates}
    /\ sensor = None /\ actuator = None /\ listener = None /\ band = None
    /\ phy = None /\ mac = None /\ polled = None
    /\ IdleMore

\* g.connectOutputTo(port)
CallConnectOutputTo ==
    /\ gates.connections < MaxConnections
    /\ \E g \in Gates, port \in Ports :
         gates' = [gates EXCEPT !.callables = connectOutputTo(@, g, port),
                                !.connections = @ + 1,
                                !.lastOp = [op |-> "connectOutputTo", gate |-> g, port |-> port]]
    /\ UNCHANGED notGates

\* g.biConnectWith(other)
CallBiConnectWith ==
    /\ gates.connections + 2 <= MaxConnections
    /\ \E g \in Gates, other \in Gates :
         gates' = [gates EXCEPT !.callables = biConnectWith(@, g, other),
                                !.connections = @ + 2,
                                !.biConnected = @ \cup {<<g, other>>},
                                !.lastOp = [op |-> "biConnectWith", gate |-> g, other |-> other]]
    /\ UNCHANGED notGates

\* port.send(message)
CallPortSend ==
    /\ \E port \in Ports, message \in GateMessages :
         LET r == PortSend(gates.callables, port, message, Cardinality(Ports) + 1)
         IN  gates' = [gates EXCEPT !.lastOp = [op |-> "send",
                                                port |-> port,
                                                message |-> message,
                                                delivered |-> r.delivered,
                                                visited |-> r.visited,
                                                error |-> r.error]]
    /\ UNCHANGED notGates

NextGates ==
    \/ CallConnectOutputTo
    \/ CallBiConnectWith
    \/ CallPortSend

SpecGates == InitGates /\ [][NextGates]_vars

\* ---------------------------------------- the frequency-band specification

InitBand ==
    /\ IdleSchedule
    /\ IdleRoundRobin
    /\ IdleFactory
    /\ band = FrequencyBandInit
    /\ sensor = None /\ actuator = None /\ gates = None /\ listener = None
    /\ phy = None /\ mac = None /\ polled = None
    /\ IdleMore

\* frequencyBand.transmit(sender, power, packet, mcsHeader, mcsPayload) with a
\* packet that takes duration ticks
CallTransmit ==
    /\ Cardinality(band.started) < MaxTransmissions
    /\ \E duration \in 1..MaxDuration :
         LET id == Cardinality(band.started) + 1
             after == transmit(band.transmissions, band.now, id, duration)
         IN  band' = [band EXCEPT !.transmissions = after,
                                  !.started = @ \cup {after[Len(after)]},
                                  !.lastOp = [op |-> "transmit", value |-> after[Len(after)]]]
    /\ UNCHANGED notBand

\* Simulated time advances by one tick.
BandTimeAdvances ==
    /\ band.now < MaxTime
    /\ band' = [band EXCEPT !.now = @ + 1, !.lastOp = [op |-> "none"]]
    /\ UNCHANGED notBand

\* frequencyBand.getActiveTransmissions()
CallGetActiveTransmissions ==
    /\ LET after == getActiveTransmissions(band.transmissions, band.now)
       IN  band' = [band EXCEPT !.transmissions = after,
                                !.lastOp = [op |-> "getActiveTransmissions", value |-> after]]
    /\ UNCHANGED notBand

NextBand ==
    \/ CallTransmit
    \/ BandTimeAdvances
    \/ CallGetActiveTransmissions

SpecBand == InitBand /\ [][NextBand]_vars

\* ------------------------------------ the band-notification specification

\* Two devices on a line; either may send, and subscribers ask for the
\* notifier of a receiver and a radius.
NotifyDevices == {"A", "B"}
NotifyPositions == {0, 1, 2}
NotifyRadii == {<<"int", 1>>, <<"float", 1>>}
NotifyDurations == {1, 2}

InitNotify ==
    /\ IdleSchedule
    /\ IdleRoundRobin
    /\ IdleFactory
    /\ band \in {NotifyingBandInit(positions) :
                    positions \in [NotifyDevices -> NotifyPositions]}
    /\ sensor = None /\ actuator = None /\ gates = None /\ listener = None
    /\ phy = None /\ mac = None /\ polled = None
    /\ IdleMore

\* frequencyBand.nNewTransmissionInReach(receiver, radius)
NotifyGetNotifier ==
    /\ \E receiver \in NotifyDevices, radius \in NotifyRadii :
         band' = nNewTransmissionInReach(band, receiver, radius)
    /\ UNCHANGED notBand

\* frequencyBand.transmit(sender, ...)
NotifyTransmit ==
    /\ band.started < MaxNotifyTransmissions
    /\ \E sender \in NotifyDevices, duration \in NotifyDurations :
         band' = transmitThenNotify(band, sender, duration)
    /\ UNCHANGED notBand

\* The kernel processes the oldest timeout(0) event.
NotifyCallbackRuns ==
    /\ band.pending # <<>>
    /\ band' = callAfterReturn(band)
    /\ UNCHANGED notBand

\* A device is moved, possibly between a transmit call and its callback.
NotifyDeviceMoves ==
    /\ \E device \in NotifyDevices, position \in NotifyPositions :
         /\ position # band.positions[device]
         /\ band' = [band EXCEPT !.positions[device] = position]
    /\ UNCHANGED notBand

\* Simulated time advances once every event of the current instant has been
\* processed.
NotifyTimeAdvances ==
    /\ band.pending = <<>>
    /\ band.now < MaxNotifyTime
    /\ band' = [band EXCEPT !.now = @ + 1]
    /\ UNCHANGED notBand

NextNotify ==
    \/ NotifyGetNotifier
    \/ NotifyTransmit
    \/ NotifyCallbackRuns
    \/ NotifyDeviceMoves
    \/ NotifyTimeAdvances

SpecNotify == InitNotify /\ [][NextNotify]_vars

\* --------------------------------------- the joined-model specification

\* Two devices on a line, near each other or at the standby distance.
JoinedPositions == {0, 1, 3000}
AttenuationValues == {0, 1, 2}

\* The lists of two or more model classes, each positional or not.
ClassLists == {l \in SeqsUpTo(BOOLEAN, MaxContributors) : Len(l) >= 2}

InitJoined ==
    /\ IdleSchedule
    /\ IdleRoundRobin
    /\ IdleFactory
    /\ IdleCore
    /\ tdma = None /\ addrgen = None /\ env = None /\ radio = None
    /\ reception = None /\ counter = None
    /\ joined \in {[positions |-> positions, model |-> None, lastOp |-> [op |-> "none"]] :
                      positions \in [{"A", "B"} -> JoinedPositions]}

\* AttenuationModelFactory._initInstance for a list of several model classes.
JoinedConstructs ==
    /\ joined.model = None
    /\ \E classes \in ClassLists, definesCurrent \in BOOLEAN :
         joined' = [joined EXCEPT
             !.model = JoinedAttenuationModelInit(classes, definesCurrent),
             !.lastOp = [op |-> "construct"]]
    /\ UNCHANGED notJoined

\* The sum of the attenuations of the contributing models.
ContributorSum(model) ==
    SumSeq([k \in 1..Len(model.models) |-> model.models[k].attenuation])

\* One of the two devices is moved; each positional model computes its
\* attenuation anew.
JoinedDeviceMoves ==
    /\ joined.model # None
    /\ \E device \in {"A", "B"}, position \in JoinedPositions,
          values \in [1..Len(joined.model.models) -> AttenuationValues] :
         LET moved == [joined.positions EXCEPT ![device] = position]
             near == distanceTo(moved["A"], moved["B"]) < STANDBY_THRESHOLD
             fresh == [joined.model EXCEPT !.raised = FALSE, !.triggered = <<>>]
         IN  /\ position # joined.positions[device]
             /\ joined' = [joined EXCEPT
                    !.positions = moved,
                    !.model = positionChanged(fresh, near, values),
                    !.lastOp = [op |-> "move", before |-> ContributorSum(joined.model)]]
    /\ UNCHANGED notJoined

\* A contributing model changes its attenuation without a position change.
JoinedContributorUpdates ==
    /\ joined.model # None
    /\ \E k \in 1..Len(joined.model.models), value \in AttenuationValues :
         LET fresh == [joined.model EXCEPT !.raised = FALSE, !.triggered = <<>>]
         IN  joined' = [joined EXCEPT
                 !.model = setAttenuation(fresh, k, value),
                 !.lastOp = [op |-> "update", before |-> ContributorSum(joined.model)]]
    /\ UNCHANGED notJoined

NextJoined ==
    \/ JoinedConstructs
    \/ JoinedDeviceMoves
    \/ JoinedContributorUpdates

SpecJoined == InitJoined /\ [][NextJoined]_vars

\* ------------------------------------------------- the Mcs specification

RECURSIVE Gcd(_, _)
Gcd(a, b) == IF b = 0 THEN a ELSE Gcd(b, a % b)

\* Fraction(k, n) with 0 < k <= n, which is kept in lowest terms.
CodeRateFractions ==
    {<<k, n>> : k \in 1..MaxCodeLength, n \in 1..MaxCodeLength} \cap
    {r \in (1..MaxCodeLength) \X (1..MaxCodeLength) : r[1] <= r[2] /\ Gcd(r[1], r[2]) = 1}

\* The class Mcs before any call of maxCorrectableBer.
InitMcs ==
    /\ IdleSchedule
    /\ IdleRoundRobin
    /\ IdleFactory
    /\ phy = [cache |-> <<>>, last |-> [op |-> "none"], calls |-> 0]
    /\ sensor = None /\ actuator = None /\ gates = None /\ listener = None
    /\ band = None /\ mac = None /\ polled = None
    /\ IdleMore

\* mcs.maxCorrectableBer() of an Mcs object with the given code rate
CallMaxCorrectableBer ==
    /\ \E codeRate \in CodeRateFractions :
         LET r == cachedMaxCorrectableBer(phy.cache, codeRate)
         IN  phy' = [cache |-> r.cache,
                     last |-> [op |-> "maxCorrectableBer", codeRate |-> codeRate,
                               value |-> r.value, computed |-> r.computed],
                     calls |-> IF phy.calls < 2 THEN phy.calls + 1 ELSE 2]
    /\ UNCHANGED notPhy

NextMcs == CallMaxCorrectableBer

SpecMcs == InitMcs /\ [][NextMcs]_vars

\* ------------------------------------------ the physical-layer specification

\* Packet sizes in bits.
PacketBits == {2, 4}

\* Code rates k/n of the modulation and coding schemes.
CodeRates == {<<3, 4>>, <<1, 2>>}

\* The bit errors, in half bits, that the running receptions may have got in
\* the interval that ends.
ErrorSteps(p) == [Receiving(p) -> 0..MaxErrorStep]

InitPhy ==
    /\ IdleSchedule
    /\ IdleRoundRobin
    /\ IdleFactory
    /\ phy \in {SimplePhyInit(codeRate, bitSize) : codeRate \in CodeRates, bitSize \in PacketBits}
    /\ sensor = None /\ actuator = None /\ gates = None /\ listener = None
    /\ band = None /\ mac = None /\ polled = None
    /\ IdleMore

\* macPortListener: a SEND command has the layer transmit.
PhyStartsSending ==
    /\ ~phy.transmitting
    /\ phy' = [phy EXCEPT !.transmitting = TRUE]
    /\ UNCHANGED notPhy

\* macPortListener: the layer's own transmission has completed.
PhyStopsSending ==
    /\ phy.transmitting
    /\ phy' = [phy EXCEPT !.transmitting = FALSE]
    /\ UNCHANGED notPhy

\* Another device starts a transmission.
PhyNewTransmission ==
    /\ Len(phy.rx) < MaxSensed
    /\ \E bitErrors \in ErrorSteps(phy) : phy' = newTransmission(phy, bitErrors)
    /\ UNCHANGED notPhy

\* The header of a transmission has been sent.
PhyHeaderCompletes ==
    /\ \E id \in DOMAIN phy.rx :
         /\ phy.rx[id].state = "header"
         /\ phy' = headerCompletes(phy, id)
    /\ UNCHANGED notPhy

\* A transmission completes.
PhyTransmissionCompletes ==
    /\ \E id \in DOMAIN phy.rx :
         /\ phy.rx[id].state \in {"payload", "ignored"}
         /\ \E bitErrors \in ErrorSteps(phy) :
              phy' = transmissionCompletes(phy, id, bitErrors)
    /\ UNCHANGED notPhy

\* The attenuation to the sender of a running transmission changes
\* (_onAttenuationChange).
PhyAttenuationChanges ==
    /\ phy.attenuationChanges < MaxAttenuationChanges
    /\ \E id \in DOMAIN phy.rx : phy.rx[id].state \in {"header", "payload", "ignored"}
    /\ \E bitErrors \in ErrorSteps(phy) :
         phy' = [receivedPowerChanges(phy, bitErrors) EXCEPT !.attenuationChanges = @ + 1]
    /\ UNCHANGED notPhy

NextPhy ==
    \/ PhyStartsSending
    \/ PhyStopsSending
    \/ PhyNewTransmission
    \/ PhyHeaderCompletes
    \/ PhyTransmissionCompletes
    \/ PhyAttenuationChanges

SpecPhy == InitPhy /\ [][NextPhy]_vars

\* ------------------------------------------- the listener specification

InitListener ==
    /\ IdleSchedule
    /\ IdleRoundRobin
    /\ IdleFactory
    /\ listener = ListenerInit
    /\ sensor = None /\ actuator = None /\ gates = None /\ band = None
    /\ phy = None /\ mac = None /\ polled = None
    /\ IdleMore

\* module.gates["b"].input.send(message)
ListenerGateSend ==
    /\ Len(listener.sent) < MaxMessages
    /\ listener' = listenerGateSend(listener)
    /\ UNCHANGED notListener

\* The timeout of an invocation of the non-queued listener fires.
NonQueuedHandlerEnds ==
    /\ \E invocation \in listener.nqActive :
         /\ invocation.ends = listener.now
         /\ listener' = nonQueuedEnds(listener, invocation)
    /\ UNCHANGED notListener

\* The timeout of an invocation of the queued listener fires.
QueuedHandlerEnds ==
    /\ \E invocation \in listener.qActive :
         /\ invocation.ends = listener.now
         /\ listener' = queuedEnds(listener, invocation)
    /\ UNCHANGED notListener

\* Simulated time advances by one tick, once every timeout of the current
\* tick has fired.
ListenerTimeAdvances ==
    /\ listener.now < MaxListenerTime
    /\ \A invocation \in listener.nqActive \cup listener.qActive :
         invocation.ends > listener.now
    /\ listener' = [listener EXCEPT !.now = @ + 1]
    /\ UNCHANGED notListener

NextListener ==
    \/ ListenerGateSend
    \/ NonQueuedHandlerEnds
    \/ QueuedHandlerEnds
    \/ ListenerTimeAdvances

SpecListener == InitListener /\ [][NextListener]_vars

\* ------------------------------------------------ the SimpleMac specification

\* One SimpleMac with the layers around it. hist keeps, for every RECEIVE
\* command sent, whether its timeout has fired, how often and with which value
\* it was processed, and the payload of the first packet of another device
\* addressed to this layer that arrived while the command was pending.
InitMac ==
    /\ IdleSchedule
    /\ IdleRoundRobin
    /\ IdleFactory
    /\ mac = [layer |-> SimpleMacInit("dev1"),
              hist |-> <<>>,
              arrivals |-> 0,
              submitted |-> 0,
              sending |-> 0]
    /\ sensor = None /\ actuator = None /\ gates = None /\ listener = None
    /\ band = None /\ phy = None /\ polled = None
    /\ IdleMore

\* The processed list of the layer, entered into the history.
RECURSIVE Processed(_, _)
Processed(hist, calls) ==
    IF calls = <<>> THEN hist
    ELSE Processed([hist EXCEPT ![Head(calls).cmd].done = @ + 1,
                                ![Head(calls).cmd].value = Head(calls).value],
                   Tail(calls))

\* The step from layer state m to n in the history: the setProcessed calls
\* made by the step are the new entries of n.processed.
Recorded(hist, m, n) ==
    Processed(hist, SubSeq(n.processed, Len(m.processed) + 1, Len(n.processed)))

Pending(h) == h.done = 0 /\ ~h.fired

\* The payloads packets of other devices carry.
MacPayloads == {<<"p1">>, <<"p2">>}

\* The packets the physical layer may hand to the layer.
PhyPackets ==
    {MacPacket(rrmAddr, dest, flag, slots, 1) :
        dest \in DeviceAddrs \cup {rrmAddr}, flag \in {0, 1}, slots \in 0..MaxGrantSlots}
    \cup {MacPacket("dev2", dest, 0, payload, 1) :
        dest \in DeviceAddrs \cup {rrmAddr}, payload \in MacPayloads}

\* The transport layer sends a RECEIVE message.
MacReceiveCommand ==
    /\ Len(mac.hist) < MaxReceives
    /\ \E duration \in 0..MaxReceiveDuration :
         LET cmd == Len(mac.hist) + 1
         IN  mac' = [mac EXCEPT
                 !.layer = transportReceive(@, cmd, duration),
                 !.hist = Append(@, [fired |-> FALSE, done |-> 0,
                                     value |-> None, first |-> None])]
    /\ UNCHANGED notMac

\* The transport layer submits a packet for the other device.
MacSubmitPacket ==
    /\ mac.submitted < MaxSubmitted
    /\ \E payload \in MacPayloads, ticks \in 1..MaxTxTicks :
         mac' = [mac EXCEPT
             !.layer = transportPacket(@, "dev2", payload, ticks),
             !.submitted = @ + 1]
    /\ UNCHANGED notMac

\* The physical layer hands a received packet to the layer.
MacPacketArrives ==
    /\ mac.arrivals < MaxArrivals
    /\ \E packet \in PhyPackets :
         LET n == phyPortDispatch(mac.layer, packet)
             forUs == packet.destMAC = mac.layer.addr /\ packet.sourceMAC # rrmAddr
             seen == [k \in 1..Len(mac.hist) |->
                        IF forUs /\ Pending(mac.hist[k]) /\ mac.hist[k].first = None
                        THEN [mac.hist[k] EXCEPT !.first = packet.payload]
                        ELSE mac.hist[k]]
         IN  mac' = [mac EXCEPT !.layer = n,
                                !.hist = Recorded(seen, mac.layer, n),
                                !.arrivals = @ + 1]
    /\ UNCHANGED notMac

\* The timeout event of a RECEIVE command fires.
MacReceiveTimeoutFires ==
    /\ \E timer \in mac.layer.timers :
         /\ timer.left = 0
         /\ LET n == receiveTimeoutCallback(mac.layer, timer)
            IN  mac' = [mac EXCEPT
                    !.layer = n,
                    !.hist = [Recorded(@, mac.layer, n) EXCEPT ![timer.id].fired = TRUE]]
    /\ UNCHANGED notMac

\* The timeout event of the grant fires.
MacGrantTimeoutFires ==
    /\ mac.layer.grant # None
    /\ ~mac.layer.grant.processed
    /\ mac.layer.grant.left = 0
    /\ mac' = [mac EXCEPT !.layer = grantTimeoutFires(@)]
    /\ UNCHANGED notMac

\* The physical layer has transmitted the packet of the SEND message; the
\* transmission started at the slot after the message and took the packet's
\* transmission time.
MacSendProcessed ==
    /\ Len(mac.layer.phyOut) > 0
    /\ mac.sending = Head(mac.layer.phyOut).ticks + 1
    /\ mac' = [mac EXCEPT !.layer = sendProcessed(@), !.sending = 0]
    /\ UNCHANGED notMac

\* Simulated time advances by one tick, once every event of the current tick
\* has been processed.
MacTimeAdvances ==
    /\ ~macDue(mac.layer)
    /\ Len(mac.layer.phyOut) > 0 => mac.sending < Head(mac.layer.phyOut).ticks + 1
    /\ \/ mac.layer.timers # {}
       \/ mac.layer.grant # None
    /\ mac' = [mac EXCEPT !.layer = macTick(@),
                          !.sending = IF Len(mac.layer.phyOut) > 0 THEN @ + 1 ELSE 0]
    /\ UNCHANGED notMac

NextMac ==
    \/ MacReceiveCommand
    \/ MacSubmitPacket
    \/ MacPacketArrives
    \/ MacReceiveTimeoutFires
    \/ MacGrantTimeoutFires
    \/ MacSendProcessed
    \/ MacTimeAdvances

SpecMac == InitMac /\ [][NextMac]_vars

\* --------------------------------------- the packet-queue specification

\* One SimpleMac whose transport layer submits numbered packets of one tick
\* each while the resource manager grants it the channel now and then; handed
\* lists the payloads of the SEND messages the physical layer has processed.
QueueGrantSlots == {2, 3}

InitQueue ==
    /\ IdleSchedule
    /\ IdleRoundRobin
    /\ IdleFactory
    /\ mac = [layer |-> SimpleMacInit("dev1"),
              submitted |-> 0,
              grants |-> 0,
              handed |-> <<>>,
              sending |-> 0]
    /\ sensor = None /\ actuator = None /\ gates = None /\ listener = None
    /\ band = None /\ phy = None /\ polled = None
    /\ IdleMore

\* The transport layer submits its next packet.
QueueSubmitPacket ==
    /\ mac.submitted < MaxQueueSubmissions
    /\ mac' = [mac EXCEPT
           !.layer = transportPacket(@, "dev2", mac.submitted + 1, 1),
           !.submitted = @ + 1]
    /\ UNCHANGED notMac

\* The physical layer hands over an announcement of the resource manager
\* while no invocation of phyPortListener runs.
QueueGrantArrives ==
    /\ mac.grants < MaxQueueGrants
    /\ mac.layer.grant = None
    /\ \E slots \in QueueGrantSlots :
         mac' = [mac EXCEPT
             !.layer = phyPortListener(@, MacPacket(rrmAddr, mac.layer.addr, 1, slots, 1)),
             !.grants = @ + 1]
    /\ UNCHANGED notMac

\* The timeout event of the grant fires.
QueueGrantTimeoutFires ==
    /\ mac.layer.grant # None
    /\ ~mac.layer.grant.processed
    /\ mac.layer.grant.left = 0
    /\ mac' = [mac EXCEPT !.layer = grantTimeoutFires(@)]
    /\ UNCHANGED notMac

\* The physical layer has transmitted the packet of the SEND message.
QueueSendProcessed ==
    /\ Len(mac.layer.phyOut) > 0
    /\ mac.sending = Head(mac.layer.phyOut).ticks + 1
    /\ mac' = [mac EXCEPT !.layer = sendProcessed(@),
                          !.handed = Append(@, Head(mac.layer.phyOut).payload),
                          !.sending = 0]
    /\ UNCHANGED notMac

\* Simulated time advances by one tick.
QueueTimeAdvances ==
    /\ ~macDue(mac.layer)
    /\ Len(mac.layer.phyOut) > 0 => mac.sending < Head(mac.layer.phyOut).ticks + 1
    /\ mac.layer.grant # None
    /\ mac' = [mac EXCEPT !.layer = macTick(@),
                          !.sending = IF Len(mac.layer.phyOut) > 0 THEN @ + 1 ELSE 0]
    /\ UNCHANGED notMac

NextQueue ==
    \/ QueueSubmitPacket
    \/ QueueGrantArrives
    \/ QueueGrantTimeoutFires
    \/ QueueSendProcessed
    \/ QueueTimeAdvances

SpecQueue == InitQueue /\ [][NextQueue]_vars

\* ------------------------------------------- the polled-protocol specification

\* Two devices with a SimpleMac each, a resource manager that grants the
\* channel to them in turn for MaxGrantSlots slots, a sender per device that
\* submits up to MaxPolledPackets packets for the peer, and a receiver per
\* device that sends a RECEIVE message and a new one whenever the last is
\* processed. subm keeps the transmission times of the packets submitted,
\* received what each receiver got.
InitPolled ==
    /\ IdleSchedule
    /\ IdleRoundRobin
    /\ IdleFactory
    /\ polled = [dev |-> [d \in DeviceAddrs |->
                            transportReceive(SimpleMacInit(d), 1, LongDuration)],
                 cmds |-> [d \in DeviceAddrs |-> 1],
                 tx |-> [s \in Stations |-> None],
                 rrm |-> SimpleRrmMacInit,
                 subm |-> [d \in DeviceAddrs |-> <<>>],
                 received |-> [d \in DeviceAddrs |-> <<>>]]
    /\ sensor = None /\ actuator = None /\ gates = None /\ listener = None
    /\ band = None /\ phy = None /\ mac = None
    /\ IdleMore

\* sender: a packet for the peer is sent to the transport port.
PolledSubmit ==
    /\ \E d \in DeviceAddrs, ticks \in 1..MaxTxTicks :
         /\ Len(polled.subm[d]) < MaxPolledPackets
         /\ polled' = [polled EXCEPT
                !.dev[d] = transportPacket(@, Peer(d),
                               <<d, Len(polled.subm[d]) + 1>>, ticks),
                !.subm[d] = Append(@, ticks)]
    /\ UNCHANGED notPolled

\* receiver: the RECEIVE message was processed; its result is kept and a new
\* RECEIVE message is sent.
PolledReceiverResumes ==
    /\ \E d \in DeviceAddrs :
         /\ Len(polled.dev[d].processed) > 0
         /\ polled' = [polled EXCEPT
                !.dev[d] = transportReceive([@ EXCEPT !.processed = Tail(@)],
                                            polled.cmds[d] + 1, LongDuration),
                !.cmds[d] = @ + 1,
                !.received[d] = Append(@, Head(polled.dev[d].processed).value)]
    /\ UNCHANGED notPolled

\* The resource manager handles the next ASSIGN message.
PolledRrmAnnounces ==
    /\ polled.rrm.pc = "idle"
    /\ \E wait \in 0..1 :
         polled' = [polled EXCEPT
            !.rrm.pc = "send",
            !.tx[rrmAddr] = phySend(announcement(polled.rrm, MaxGrantSlots), wait)]
    /\ UNCHANGED notPolled

\* The physical layer of a device takes the SEND message of its MAC layer.
PolledPhyAccepts ==
    /\ \E d \in DeviceAddrs :
         /\ Len(polled.dev[d].phyOut) > 0
         /\ polled.tx[d] = None
         /\ \E wait \in 0..1 :
              polled' = [polled EXCEPT
                 !.tx[d] = phySend(Head(polled.dev[d].phyOut), wait)]
    /\ UNCHANGED notPolled

\* The time slot a physical layer waited for begins.
PolledPhyTransmits ==
    /\ \E s \in Stations :
         /\ polled.tx[s] # None
         /\ polled.tx[s].pc = "slot"
         /\ polled.tx[s].left = 0
         /\ polled' = [polled EXCEPT !.tx = phyTransmit(@, s)]
    /\ UNCHANGED notPolled

\* A transmission completes: the physical layers that received it hand the
\* packet to their MAC layers, and the SEND message is processed.
PolledPhyCompletes ==
    /\ \E s \in Stations :
         /\ OnAir(polled.tx, s)
         /\ polled.tx[s].left = 0
         /\ LET t == polled.tx[s]
                heard == [d \in DeviceAddrs |->
                            IF d \in Receivers(t)
                            THEN phyPortDispatch(polled.dev[d], t.packet)
                            ELSE polled.dev[d]]
            IN  polled' = [polled EXCEPT
                   !.tx[s] = None,
                   !.dev = [d \in DeviceAddrs |->
                              IF d = s THEN sendProcessed(heard[d]) ELSE heard[d]],
                   !.rrm = IF s = rrmAddr
                           THEN announcementSent(@, MaxGrantSlots) ELSE @]
    /\ UNCHANGED notPolled

\* The timeout event of a device's grant fires.
PolledGrantTimeoutFires ==
    /\ \E d \in DeviceAddrs :
         /\ polled.dev[d].grant # None
         /\ ~polled.dev[d].grant.processed
         /\ polled.dev[d].grant.left = 0
         /\ polled' = [polled EXCEPT !.dev[d] = grantTimeoutFires(@)]
    /\ UNCHANGED notPolled

\* The timeout of the resource manager fires.
PolledAssignProcessed ==
    /\ polled.rrm.pc = "guard"
    /\ polled.rrm.left = 0
    /\ polled' = [polled EXCEPT !.rrm = assignProcessed(@)]
    /\ UNCHANGED notPolled

\* Some event of the current tick has not been processed yet.
PolledDue ==
    \/ \E d \in DeviceAddrs :
         \/ macDue(polled.dev[d])
         \/ Len(polled.dev[d].processed) > 0
         \/ Len(polled.dev[d].phyOut) > 0 /\ polled.tx[d] = None
    \/ \E s \in Stations : polled.tx[s] # None /\ polled.tx[s].left = 0
    \/ polled.rrm.pc = "idle"
    \/ polled.rrm.pc = "guard" /\ polled.rrm.left = 0

\* Simulated time advances by one tick.
PolledTimeAdvances ==
    /\ ~PolledDue
    /\ polled' = [polled EXCEPT
           !.dev = [d \in DeviceAddrs |->
                      macTick(@[d])],
           !.tx = [s \in Stations |->
                     IF @[s] = None THEN None ELSE [@[s] EXCEPT !.left = @ - 1]],
           !.rrm.left = IF polled.rrm.pc = "guard" THEN @ - 1 ELSE @]
    /\ UNCHANGED notPolled

\* The steps the simulation takes by itself.
PolledRuns ==
    \/ PolledReceiverResumes
    \/ PolledRrmAnnounces
    \/ PolledPhyAccepts
    \/ PolledPhyTransmits
    \/ PolledPhyCompletes
    \/ PolledGrantTimeoutFires
    \/ PolledAssignProcessed
    \/ PolledTimeAdvances

NextPolled ==
    \/ PolledSubmit
    \/ PolledRuns

\* The simulation processes every scheduled event and then advances time;
\* a sender need not submit anything.
SpecPolled == InitPolled /\ [][NextPolled]_vars /\ WF_vars(PolledRuns)

\* --------------------------------------- the TDMA header specification

\* The packets handed to the TDMA MAC layers: schedules, and packets of the
\* types 1 to MaxHeaderType with or without a destination.
TdmaPackets ==
    {SchedulePacket(Bytes("G"), TDMAScheduleInit(a), 0) :
        a \in {l \in MacActionLists : Len(l) <= 1}}
        \cup {[type |-> t, sourceMAC |-> Bytes("G"), destMAC |-> dest, payload |-> "u1"] :
                 t \in 1..MaxHeaderType, dest \in Macs \cup {None}}

\* A sensor, an actuator and a gateway MAC layer; last is the last listener
\* call with its outcome, calls counts the calls.
InitTdma ==
    /\ IdleSchedule
    /\ IdleRoundRobin
    /\ IdleFactory
    /\ IdleCore
    /\ tdma = [sensor |-> SensorMacInit(Bytes("A")),
               actuator |-> ActuatorMacInit(Bytes("A")),
               gateway |-> GatewayMacInit(Bytes("G")),
               last |-> None,
               calls |-> 0]
    /\ addrgen = None /\ env = None /\ radio = None /\ reception = None
    /\ joined = None /\ counter = None

Call(layer, wasReceiving, class, packet, raised) ==
    [layer |-> layer, wasReceiving |-> wasReceiving, class |-> class,
     packet |-> packet, raised |-> raised]

\* The physical layer hands a packet to the sensor's MAC layer.
TdmaSensorPhyIn ==
    /\ tdma.calls < MaxTdmaPackets
    /\ \E class \in HeaderClasses, packet \in TdmaPackets :
         LET out == sensorPhyInGateListener(tdma.sensor, class, packet)
         IN  tdma' = [tdma EXCEPT
                !.sensor = out.layer,
                !.last = Call("sensor", tdma.sensor.receiving, class, packet, out.raised),
                !.calls = @ + 1]
    /\ UNCHANGED notTdma

\* The physical layer hands a packet to the actuator's MAC layer.
TdmaActuatorPhyIn ==
    /\ tdma.calls < MaxTdmaPackets
    /\ \E class \in HeaderClasses, packet \in TdmaPackets :
         LET out == actuatorPhyInGateListener(tdma.actuator, class, packet)
         IN  tdma' = [tdma EXCEPT
                !.actuator = out.layer,
                !.last = Call("actuator", TRUE, class, packet, out.raised),
                !.calls = @ + 1]
    /\ UNCHANGED notTdma

\* The physical layer hands a packet to the gateway's MAC layer.
TdmaGatewayPhyIn ==
    /\ tdma.calls < MaxTdmaPackets
    /\ \E class \in HeaderClasses, packet \in TdmaPackets :
         LET out == gatewayPhyInGateListener(tdma.gateway, class, packet)
         IN  tdma' = [tdma EXCEPT
                !.gateway = out.layer,
                !.last = Call("gateway", TRUE, class, packet, out.raised),
                !.calls = @ + 1]
    /\ UNCHANGED notTdma

\* The sensor's _senddata process runs to its end.
TdmaSensorSends ==
    /\ tdma.sensor.pc = "waitSlot"
    /\ tdma' = [tdma EXCEPT
           !.sensor = SenddataProcessed(
               SenddataSlot(SensorNetworkIn(tdma.sensor, "s1")), 1)]
    /\ UNCHANGED notTdma

NextTdma ==
    \/ TdmaSensorPhyIn
    \/ TdmaActuatorPhyIn
    \/ TdmaGatewayPhyIn
    \/ TdmaSensorSends

SpecTdma == InitTdma /\ [][NextTdma]_vars

\* ----------------------------------- the address generator specification

\* The two counters at import time; issued holds, per generator, what its
\* calls returned, in order (None for a call that raised).
InitAddrgen ==
    /\ IdleSchedule
    /\ IdleRoundRobin
    /\ IdleFactory
    /\ IdleCore
    /\ addrgen = [macCounter |-> 0, _macCounter |-> 0,
                  issued |-> [g \in {"module", "SimpleMac"} |-> <<>>]]
    /\ tdma = None /\ env = None /\ radio = None /\ reception = None
    /\ joined = None /\ counter = None

\* mac_layers.newUniqueMacAddress()
CallNewUniqueMacAddress ==
    /\ Len(addrgen.issued["module"]) < MaxAddressCalls
    /\ LET out == newUniqueMacAddress(addrgen.macCounter)
       IN  addrgen' = [addrgen EXCEPT
               !.macCounter = out.counter,
               !.issued["module"] = Append(@, out.addr)]
    /\ UNCHANGED notAddrgen

\* SimpleMac.newMacAddress()
CallNewMacAddress ==
    /\ Len(addrgen.issued["SimpleMac"]) < MaxAddressCalls
    /\ LET out == newMacAddress(addrgen._macCounter)
       IN  addrgen' = [addrgen EXCEPT
               !._macCounter = out.counter,
               !.issued["SimpleMac"] = Append(@, out.addr)]
    /\ UNCHANGED notAddrgen

NextAddrgen ==
    \/ CallNewUniqueMacAddress
    \/ CallNewMacAddress

SpecAddrgen == InitAddrgen /\ [][NextAddrgen]_vars

\* --------------------------------------- the environment specification

\* The environment after initialize(config) for a TDMA round-robin
\* configuration.
InitEnv ==
    /\ IdleSchedule
    /\ IdleRoundRobin
    /\ IdleFactory
    /\ IdleCore
    /\ \E episodes \in 0..MaxEpisodes, horizon \in 0..MaxHorizon :
         env = EnvInit(episodes, horizon)
    /\ tdma = None /\ addrgen = None /\ radio = None /\ reception = None
    /\ joined = None /\ counter = None

\* The simulation is advanced and the gateway process starts.
GatewayStarts ==
    /\ env.pc = "start"
    /\ env' = gatewayNextEpisode(env)
    /\ UNCHANGED notEnv

GatewaySendsSchedule ==
    /\ env.pc = "schedule"
    /\ env' = gatewaySendsSchedule(env)
    /\ UNCHANGED notEnv

\* The MAC layer has sent the announcement and sets the command processed.
GatewayScheduleProcessed ==
    /\ env.pc = "eProcessed"
    /\ env' = gatewayScheduleProcessed(env)
    /\ UNCHANGED notEnv

\* The simulation is advanced to the end of the schedule.
GatewayTimeoutUntil ==
    /\ env.pc = "timeoutUntil"
    /\ env' = gatewayTimeoutUntil(env)
    /\ UNCHANGED notEnv

NextEnv ==
    \/ GatewayStarts
    \/ GatewaySendsSchedule
    \/ GatewayScheduleProcessed
    \/ GatewayTimeoutUntil

\* `while not is_done: SimMan.runSimulation(0.01)` keeps advancing the
\* simulation, so a step of the gateway process that is due is taken.
SpecEnv == InitEnv /\ [][NextEnv]_vars /\ WF_vars(NextEnv)

\* -------------------------------------------- the port order specification

\* Two runs of the program on one port each, given the same additions and
\* the same messages; added lists the additions in order, calls the calls
\* each run has made, lastSend the additions before the last send and the
\* calls it made.
InitPortOrder ==
    /\ IdleSchedule
    /\ IdleRoundRobin
    /\ IdleFactory
    /\ sensor = None /\ actuator = None /\ band = None /\ phy = None
    /\ listener = None /\ mac = None /\ polled = None
    /\ \E o1 \in HashOrders, o2 \in HashOrders :
         gates = [runs |-> <<PortInit(o1), PortInit(o2)>>,
                  added |-> <<>>,
                  sends |-> 0,
                  calls |-> <<<<>>, <<>>>>,
                  lastSend |-> [added |-> <<>>, calls |-> <<<<>>, <<>>>>]]
    /\ IdleMore

\* port._addDest(dest) in both runs.
PortAddDest ==
    /\ Len(gates.added) < MaxAdditions
    /\ \E dest \in Dests :
         gates' = [gates EXCEPT
             !.runs = [r \in 1..2 |-> addDest(gates.runs[r], dest)],
             !.added = Append(@, dest)]
    /\ UNCHANGED notGates

\* port.send(message) in both runs.
PortSendMessage ==
    /\ gates.sends < MaxPortSends
    /\ \E message \in GateMessages :
         gates' = [gates EXCEPT
             !.sends = @ + 1,
             !.calls = [r \in 1..2 |-> @[r] \o portSendCalls(gates.runs[r], message)],
             !.lastSend = [added |-> gates.added,
                           calls |-> [r \in 1..2 |-> portSendCalls(gates.runs[r], message)]]]
    /\ UNCHANGED notGates

NextPortOrder ==
    \/ PortAddDest
    \/ PortSendMessage

SpecPortOrder == InitPortOrder /\ [][NextPortOrder]_vars

\* ----------------------------------------- the reception specification

\* A physical layer that is not transmitting has sensed a transmission.
InitReception ==
    /\ IdleSchedule
    /\ IdleRoundRobin
    /\ IdleFactory
    /\ IdleCore
    /\ \E headerTicks \in 1..MaxHeaderTicks, payloadTicks \in 1..MaxPayloadTicks,
          bitrateHeader \in 1..MaxBitRate, bitratePayload \in 1..MaxBitRate,
          bitErrorRate \in 0..MaxBerHalves :
         reception = ReceiveInit(headerTicks, payloadTicks, bitrateHeader,
                                 bitratePayload, bitErrorRate)
    /\ tdma = None /\ addrgen = None /\ env = None /\ radio = None
    /\ joined = None /\ counter = None

\* _nReceivedPowerChanges is triggered while the transmission goes on:
\* another transmission starts or completes, or an attenuation changes
\* (delta is 0 when the new attenuation gives the same power).  There are
\* no more changes than ticks have passed.
ReceptionPowerChanges ==
    /\ reception.phase \in {"header", "payload"}
    /\ 0 < reception.now
    /\ reception.now < reception.stopTime
    /\ reception.changes < reception.now
    /\ \E delta \in {-1, 0, 1}, newRate \in 0..MaxBerHalves :
         reception' = onReceivedPowerChange(reception, delta, newRate)
    /\ UNCHANGED notReception

ReceptionHeaderCompletes ==
    /\ reception.phase = "header"
    /\ reception.now = reception.headerStopTime
    /\ reception' = receiveHeaderCompleted(reception)
    /\ UNCHANGED notReception

ReceptionCompletes ==
    /\ reception.phase = "payload"
    /\ reception.now = reception.stopTime
    /\ reception' = receiveCompleted(reception)
    /\ UNCHANGED notReception

ReceptionTimeAdvances ==
    /\ reception.phase \in {"header", "payload"}
    /\ reception.now < reception.stopTime
    /\ ~(reception.phase = "header" /\ reception.now = reception.headerStopTime)
    /\ reception' = [reception EXCEPT !.now = @ + 1]
    /\ UNCHANGED notReception

NextReception ==
    \/ ReceptionPowerChanges
    \/ ReceptionHeaderCompletes
    \/ ReceptionCompletes
    \/ ReceptionTimeAdvances

SpecReception == InitReception /\ [][NextReception]_vars

\* ------------------------------------- the sending and sensing specification

\* The durations of the transmissions, in ticks, and the powers received
\* from a transmission.
RadioDurations == {1, 2}

RadioPowers == {1, 2}

\* The loads of a run: the number of SEND commands the MAC layer sends and
\* the number of transmissions of other devices.
RadioLoads == {[cmds |-> 2, others |-> 1], [cmds |-> 1, others |-> 2]}

InitRadio ==
    /\ IdleSchedule
    /\ IdleRoundRobin
    /\ IdleFactory
    /\ IdleCore
    /\ \E load \in RadioLoads : radio = [load |-> load] @@ RadioInit(1)
    /\ tdma = None /\ addrgen = None /\ env = None /\ reception = None
    /\ joined = None /\ counter = None

\* The own transmissions among the given ones.
Own(r) == {t \in DOMAIN r.txs : r.txs[t].sender = "self"}

\* What has to happen at the present time before time goes on.
RadioDue ==
    \/ \E t \in DOMAIN radio.txs :
         \/ ~radio.txs[t].announced
         \/ ~radio.txs[t].ended /\ radio.txs[t].stopTime = radio.now
    \/ radio.pc = "nextTimeSlot" /\ radio.wake = radio.now

\* The MAC layer sends a SEND command to the mac port.
RadioSendArrives ==
    /\ Len(radio.cmds) < radio.load.cmds
    /\ \E wake \in NextTimeSlots(radio.now) : radio' = macPortSend(radio, wake)
    /\ UNCHANGED notRadio

\* The time slot macPortListener waits for begins.
RadioSlotBegins ==
    /\ radio.pc = "nextTimeSlot"
    /\ radio.wake = radio.now
    /\ \E duration \in RadioDurations :
         radio' = macPortListenerTransmits(radio, 1, duration)
    /\ UNCHANGED notRadio

\* Another device starts a transmission.
RadioOtherTransmits ==
    /\ Cardinality(DOMAIN radio.txs \ Own(radio)) < radio.load.others
    /\ \E power \in RadioPowers, duration \in RadioDurations :
         radio' = bandTransmit(radio, "other", power, duration)
    /\ UNCHANGED notRadio

\* The frequency band triggers nNewTransmission for a transmission begun.
RadioNewTransmission ==
    /\ \E t \in DOMAIN radio.txs :
         /\ ~radio.txs[t].announced
         /\ radio' = newTransmissionTriggered(radio, t)
    /\ UNCHANGED notRadio

\* The attenuation to the sender of a recorded transmission changes.
RadioAttenuationChanges ==
    /\ radio.attenuationChanges < 1
    /\ \E t \in DOMAIN radio.transmissionToReceivedPowerDict,
          newReceivedPower \in RadioPowers :
         radio' = [onAttenuationChange(radio, t, newReceivedPower)
                      EXCEPT !.attenuationChanges = @ + 1]
    /\ UNCHANGED notRadio

\* The layer's own transmission completes.
RadioOwnCompletes ==
    /\ radio.pc = "eCompletes"
    /\ radio.txs[radio.currentTransmission].announced
    /\ radio.txs[radio.currentTransmission].stopTime = radio.now
    /\ \E wake \in NextTimeSlots(radio.now) :
         radio' = macPortListenerCompletes(radio, wake)
    /\ UNCHANGED notRadio

\* A transmission of another device completes.
RadioOtherCompletes ==
    /\ \E t \in DOMAIN radio.txs \ Own(radio), correctable \in BOOLEAN :
         /\ radio.txs[t].announced
         /\ ~radio.txs[t].ended
         /\ radio.txs[t].stopTime = radio.now
         /\ radio' = otherTransmissionCompletes(radio, t, correctable)
    /\ UNCHANGED notRadio

RadioTimeAdvances ==
    /\ radio.now < MaxRadioTime
    /\ ~RadioDue
    /\ radio' = [radio EXCEPT !.now = @ + 1]
    /\ UNCHANGED notRadio

NextRadio ==
    \/ RadioSendArrives
    \/ RadioSlotBegins
    \/ RadioOtherTransmits
    \/ RadioNewTransmission
    \/ RadioAttenuationChanges
    \/ RadioOwnCompletes
    \/ RadioOtherCompletes
    \/ RadioTimeAdvances

SpecRadio == InitRadio /\ [][NextRadio]_vars

\* ------------------------------------ the counter-traffic specification

InitCounter ==
    /\ IdleSchedule
    /\ IdleRoundRobin
    /\ IdleFactory
    /\ IdleCore
    /\ tdma = None /\ addrgen = None /\ env = None /\ radio = None
    /\ reception = None /\ joined = None
    /\ counter \in {CounterTrafficEnvInit(rejects) : rejects \in BOOLEAN}

\* COUNTER_INTERVAL has passed: both sender processes, which wait for the
\* same timeouts, run through their loop once.
CounterIntervalPasses ==
    /\ \E i \in 1..2 : ~counter.senders[i].ended
    /\ counter' = [counter EXCEPT
           !.senders = [i \in 1..2 |->
                           IF counter.senders[i].ended THEN counter.senders[i]
                           ELSE senderProcess(counter.senders[i], counter.rejects)],
           !.lastOp = [op |-> "interval"]]
    /\ UNCHANGED notCounter

\* A packet one of the senders has sent reaches the other; packets may wait
\* in the MAC layer's queue for any time.
CounterPacketReceived ==
    /\ \E senderIndex \in 0..1 :
         \E value \in counter.senders[senderIndex + 1].sent :
            counter' = [counter EXCEPT
                !.interpreter = onPacketReceived(@, senderIndex, value),
                !.lastOp = [op |-> "onPacketReceived", value |-> value]]
    /\ UNCHANGED notCounter

\* env.reset()
CounterReset ==
    /\ counter.lastOp.op # "reset"
    /\ counter' = counterReset(counter)
    /\ UNCHANGED notCounter

\* interpreter.getObservation(), as at the end of a step
CounterGetObservation ==
    /\ counter' = [counter EXCEPT
           !.lastOp = [op |-> "getObservation", value |-> getObservation(counter.interpreter)]]
    /\ UNCHANGED notCounter

NextCounter ==
    \/ CounterIntervalPasses
    \/ CounterPacketReceived
    \/ CounterReset
    \/ CounterGetObservation

SpecCounter == InitCounter /\ [][NextCounter]_vars

\* ================================================================ claims

\* The first slot of every maximal run of equal (device, flag) assignments.
RunStarts(a) == {i \in 1..Len(a) : i = 1 \/ a[i] # a[i - 1]}

\* The k-th smallest element of a finite set of integers.
Nth(S, k) == CHOOSE x \in S : Cardinality({y \in S : y < x}) = k - 1

\* The run entries of the schedule, read back from its entry strings.
ReadEntries ==
    [k \in 1..(Len(schedule) - 1) |->
        <<StrToInt(schedule[k][1]), schedule[k][2], StrToInt(schedule[k][3])>>]

ReadEndMarker == StrToInt(schedule[Len(schedule)][1])

MacA == Bytes("A")

MacB == Bytes("B")

ExampleAction == << <<MacA, 0>>, <<MacA, 0>>, <<MacB, 1>>, <<MacB, 0>> >>

LaterEntries ==
    {k \in 1..(Len(schedule) - 1) :
        /\ schedule[k][2] = result.mac_address
        /\ StrToInt(schedule[k][1]) > result.last_step}

RECURSIVE SumProbabilities(_)
SumProbabilities(a) ==
    IF Len(a) = 0 THEN 0 ELSE Head(a)[2] + SumProbabilities(Tail(a))

\* C5: a CSMASchedule exists only for a list of (device, probability) pairs
\* whose probabilities sum to 1.0; for any other list construction fails.
C5_OnlyWhenSumIsOne ==
    kind = "CSMA" => SumProbabilities(action) = 10

\* The number of slots of the log assigned to device d.
SlotsOf(d) == Cardinality({i \in 1..Len(slotLog) : slotLog[i][1] = d})

\* The number of flag-1 slots of the log.
FlagOneSlots == Cardinality({i \in 1..Len(slotLog) : slotLog[i][2] = 1})

ListedActuators == Cardinality({i \in 1..Len(devices) : devices[i] \in actuators})

\* C6 as stated: after N slots generated in total, every device of the list
\* of length L has been assigned at least floor(N / L) of them.
C6_Original ==
    \A i \in 1..Len(devices) :
        SlotsOf(devices[i]) >= Len(slotLog) \div Len(devices)

\* C6 amended: after N slots generated in total, every device of the list of
\* length L, A of whose positions hold an actuator, has been assigned at least
\* floor(N / (L + A)) of them.
C6_FairShare ==
    \A i \in 1..Len(devices) :
        SlotsOf(devices[i]) >= Len(slotLog) \div (Len(devices) + ListedActuators)

\* Two full rounds of a list of several devices, one of them an actuator.
C6_Witness ==
    /\ Len(devices) >= 2
    /\ ListedActuators >= 1
    /\ Len(slotLog) >= 2 * (Len(devices) + ListedActuators)

\* C7: after N slots generated in total by any sequence of next_schedule
\* calls, K of them flag-1 slots, the cursor equals (N - K) mod L; hence
\* N mod L when the list holds no actuator.
C7_CursorPersists ==
    Len(devices) >= 1 =>
        nextDevice = (Len(slotLog) - FlagOneSlots) % Len(devices)

\* At least two calls were made, an actuator was served, and the cursor is not
\* at the first device.
C7_Witness ==
    /\ Len(devices) >= 2
    /\ Len(slotLog) >= 2 * timeslots
    /\ timeslots >= 1
    /\ FlagOneSlots >= 1
    /\ nextDevice # 0

\* C8: tdma_encode(schedule, compressed=False) is 7 times the number of run
\* entries plus 1; three entries give 22.
C8_Uncompressed ==
    (result.op = "tdma_encode" /\ ~result.compressed) =>
        result.value = 7 * Cardinality(RunStarts(action)) + 1

\* A schedule of three entries, with a run of two slots, encoded to 22 bytes.
C8_Witness ==
    /\ result.op = "tdma_encode"
    /\ ~result.compressed
    /\ Cardinality(RunStarts(action)) = 3
    /\ Len(action) = 4
    /\ result.value = 22

RECURSIVE CompressedCost(_, _)
\* 7 for each of the first k entries whose device is in no earlier entry, 3
\* for each of the others.
CompressedCost(entries, k) ==
    IF k = 0 THEN 0
    ELSE CompressedCost(entries, k - 1)
         + (IF \E j \in 1..(k - 1) : entries[j][2] = entries[k][2] THEN 3 ELSE 7)

\* C9: tdma_encode(schedule, compressed=True) is 1 plus, over the run entries
\* in order, 7 for an entry whose device is in no earlier entry and 3 for an
\* entry whose device is.
C9_CompressedPerEntry ==
    (result.op = "tdma_encode" /\ result.compressed) =>
        result.value = 1 + CompressedCost(ReadEntries, Len(schedule) - 1)

C20_SelfPairFails ==
    [][(/\ attResult'.op = "getAttenuationModel"
        /\ attResult'.deviceA = attResult'.deviceB)
       => (/\ ~attResult'.ok
           /\ instances' = instances
           /\ created' = created
           /\ returned' = returned)]_vars

\* A self-pair request has failed on a factory whose cache already holds
\* instances.
C20_Witness ==
    /\ attResult.op = "getAttenuationModel"
    /\ attResult.deviceA = attResult.deviceB
    /\ ~attResult.ok
    /\ attResult.value = "TypeError"
    /\ Cardinality(DOMAIN instances) >= 2

\* The slots a schedule's action list gives to an address.
AssignedSlots(a, addr) == {i \in 1..Len(a) : a[i][1] = addr}

\* C18: when a sensor MAC has resumed reception after a schedule stamped with
\* gateway clock c, it has issued exactly one send for every slot i of every
\* span the schedule assigns to its address, each at time c + i * slot length.
C18_EverySpanServed ==
    (sensor.pc = "idle" /\ sensor.schedule # None) =>
        LET assigned == AssignedSlots(sensor.schedule.action, sensor.addr)
        IN  /\ Len(sensor.sent) = Cardinality(assigned)
            /\ {sensor.sent[k].slot : k \in 1..Len(sensor.sent)} = assigned
            /\ \A k \in 1..Len(sensor.sent) :
                  sensor.sent[k].time =
                      sensor.lastGatewayClock + sensor.sent[k].slot * TicksPerSlot

\* C19: a packet handed to an actuator MAC has its payload forwarded on
\* networkOut exactly when it is a control packet (type 2) addressed to the
\* actuator; any other packet forwards nothing, and a schedule (type 0) is
\* only stored.
C19_ForwardsOwnControl ==
    [][LET packet == actuator'.lastPacket
       IN  /\ actuator'.networkOut =
                 IF packet.type = 2 /\ packet.destMAC = actuator.addr
                 THEN Append(actuator.networkOut, packet.payload)
                 ELSE actuator.networkOut
           /\ packet.type = 0 => actuator'.schedule = packet.payload]_vars

\* The callbacks registered on a port.
CallbacksOn(port) == {c \in gates.callables[port] : c[1] = "callback"}

\* Every connection made leads from a gate's output to the input of another
\* gate, as connectOutputTo(other.input) and biConnectWith(other) make them.
OutputsToOtherInputs ==
    \A port \in Ports : \A c \in gates.callables[port] :
        c[1] = "send" => (port[2] = "output" /\ c[3] = "input" /\ c[2] # port[1])

C16_ExactlyTheActive ==
    band.lastOp.op = "getActiveTransmissions" =>
        {band.lastOp.value[k] : k \in 1..Len(band.lastOp.value)}
            = {t \in band.started : t.startTime <= band.now /\ band.now < t.stopTime}

\* How often the packet of transmission id was sent on the mac port.
SentUp(id) == Cardinality({k \in 1..Len(phy.macOut) : phy.macOut[k] = id})

\* C11: once a sensed transmission has completed, its packet has been sent
\* on the mac output exactly once if the rounded bit-error count divided by
\* the packet's bits is at most the MCS's maxCorrectableBer, and not at all
\* if it is greater; before it completes, and for a dropped frame at any
\* later time, nothing is sent.
C11_SentIffCorrectable ==
    \A id \in DOMAIN phy.rx :
        LET r == phy.rx[id]
            maxBer == maxCorrectableBer(r.codeRate)
        IN  /\ r.state \in {"sent", "dropped"} =>
                  /\ (2 * r.rounded - r.bitErrorSum) \in -1..1
                  /\ r.rounded * maxBer[2] <= maxBer[1] * r.bitSize => SentUp(id) = 1
                  /\ r.rounded * maxBer[2] > maxBer[1] * r.bitSize => SentUp(id) = 0
            /\ r.state \in {"header", "payload"} => SentUp(id) = 0

\* Two overlapping receptions have completed: one packet, whose bit error
\* rate equals the maximum, was sent up, the other was dropped.
C11_Witness ==
    /\ Len(phy.rx) = 2
    /\ \E i \in 1..2, j \in 1..2 :
         /\ phy.rx[i].state = "sent"
         /\ phy.rx[i].rounded * maxCorrectableBer(phy.rx[i].codeRate)[2]
               = maxCorrectableBer(phy.rx[i].codeRate)[1] * phy.rx[i].bitSize
         /\ phy.rx[i].rounded > 0
         /\ phy.rx[j].state = "dropped"
         /\ phy.rx[j].bitErrorSum % 2 = 1
    /\ Len(phy.macOut) = 1

\* C12: the queued generator listener handles the messages one at a time and
\* in the order they were sent: at most one invocation is running, the
\* invocations started are those of the first messages in order, no
\* invocation starts before the one before it has ended, every other message
\* is still buffered, and once the listener is at rest every message sent
\* has been handled exactly once.
C12_QueuedHandlesAllInOrder ==
    LET log == listener.qLog
    IN  /\ Cardinality(listener.qActive) <= 1
        /\ \A i \in 1..Len(log) : log[i].index = i
        /\ \A i \in 2..Len(log) : log[i].start >= log[i - 1].ends
        /\ listener.qQueue = [i \in 1..(Len(listener.sent) - Len(log)) |-> Len(log) + i]
        /\ listener.qActive = {} => Len(log) = Len(listener.sent)

\* Three messages were sent one tick apart while the first was being
\* handled, and the queued listener has handled all three.
C12_Witness ==
    /\ Len(listener.sent) = 3
    /\ listener.sent[3].time < listener.sent[1].time + HandlerTicks
    /\ listener.sent[2].time = listener.sent[1].time + 1
    /\ listener.sent[3].time = listener.sent[2].time + 1
    /\ Len(listener.qLog) = 3
    /\ listener.qActive = {}

\* The messages the non-queued listener has handled.
NonQueuedHandled == {listener.nqLog[i].index : i \in 1..Len(listener.nqLog)}

C17_ReceiveProcessedOnce ==
    /\ \A k \in 1..Len(mac.hist) :
          LET h == mac.hist[k]
          IN  /\ h.done <= 1
              /\ h.fired => h.done = 1
              /\ h.first # None => h.done = 1 /\ h.value = h.first
              /\ (h.done = 1 /\ h.first = None) => h.value = None /\ h.fired
    /\ (\A k \in 1..Len(mac.hist) : ~Pending(mac.hist[k])) => ~mac.layer.receiving

\* How often the receiver of the peer of device d got packet i of d.
TimesReceived(d, i) ==
    Cardinality({k \in 1..Len(polled.received[Peer(d)]) :
                    polled.received[Peer(d)][k] = <<d, i>>})

\* No receiver got a packet twice.
NoneTwice ==
    \A d \in DeviceAddrs : \A i \in 1..MaxPolledPackets : TimesReceived(d, i) <= 1

Fits(d, i) ==
    /\ i <= Len(polled.subm[d])
    /\ \A j \in 1..i : polled.subm[d][j] < MaxGrantSlots

C21_UnknownTypeIsFatal ==
    (/\ tdma.last # None
     /\ tdma.last.class = "NCSMacHeader"
     /\ tdma.last.packet.type \notin {0, 1, 2})
    => tdma.last.raised

\* The fields of an actuator MAC layer its listener works on.
ActuatorFields(a) == <<a.schedule, a.gatewayAdress, a.networkOut>>

\* C21, amended: a listener call raises exactly when the header
\* is not an NCSMacHeader (and, for the sensor, the layer is in receiving
\* mode), and then changes nothing; a packet with an NCSMacHeader of a type
\* other than 0, 1, 2 raises nothing and changes nothing.
C21_OnlyForeignHeaderIsFatal ==
    [][tdma'.calls = tdma.calls + 1 =>
        LET call == tdma'.last
            foreign == call.class # "NCSMacHeader"
            same == /\ tdma'.sensor = tdma.sensor
                    /\ ActuatorFields(tdma'.actuator) = ActuatorFields(tdma.actuator)
                    /\ tdma'.gateway = tdma.gateway
        IN  /\ call.raised <=> (foreign /\ call.wasReceiving)
            /\ call.raised => same
            /\ (~foreign /\ call.packet.type \notin {0, 1, 2}) => same
    ]_vars

\* A sensor in receiving mode was handed a packet with an NCSMacHeader of
\* type 3 and raised nothing.
C21_Witness ==
    /\ tdma.last # None
    /\ tdma.last.layer = "sensor"
    /\ tdma.last.wasReceiving
    /\ tdma.last.class = "NCSMacHeader"
    /\ tdma.last.packet.type = 3
    /\ ~tdma.last.raised

\* C22: every call of a MAC address generator succeeds and returns a 6-byte
\* address that differs from every address the generator returned before and
\* from the all-zero address; the k-th call returns the address of value k.
C22_EveryCallReturnsFreshAddress ==
    \A g \in {"module", "SimpleMac"} :
        LET issued == addrgen.issued[g]
        IN  \A k \in 1..Len(issued) :
                /\ issued[k] # None
                /\ Len(issued[k]) = 6
                /\ issued[k] # <<0, 0, 0, 0, 0, 0>>
                /\ AddressValue(issued[k]) = k
                /\ \A j \in 1..(k - 1) : issued[j] # issued[k]

\* The gateway process has ended, by returning or by an exception.
GatewayEnded == env.pc \in {"finished", "raised"}

\* The counts C23 states, at a trigger of the simulation-done event.
CountsAtDone ==
    /\ env.schedules = env.episodes * env.horizon
    /\ Len(env.episode_dones) = env.episodes
    /\ env.dones = 1

\* C23 as stated: for E episodes and horizon H the gateway process issues
\* E*H schedules, triggers episode-done once after each block of H, then
\* simulation-done once, which sets is_done.
C23_EndsWithAllCounted ==
    GatewayEnded => (CountsAtDone /\ env.is_done)

\* The k-th trigger of episode-done follows the k-th block of H schedules,
\* and simulation-done is triggered at most once, after all of them, and
\* sets is_done.
CountedInBlocks ==
    /\ env.schedules <= env.episodes * env.horizon
    /\ \A k \in 1..Len(env.episode_dones) : env.episode_dones[k] = k * env.horizon
    /\ Len(env.episode_dones) <= env.episodes
    /\ env.schedules < (Len(env.episode_dones) + 1) * env.horizon + 1
    /\ env.dones <= 1
    /\ env.dones = 1 => CountsAtDone
    /\ env.is_done <=> env.dones = 1

\* With at least one episode and a horizon of at least 1 the counts are as
\* C23 states them in every state, and advancing the simulation eventually
\* sets is_done.
PositiveConfigEndsWithAllCounted ==
    /\ []((env.episodes >= 1 /\ env.horizon >= 1) => CountedInBlocks)
    /\ (env.episodes >= 1 /\ env.horizon >= 1) ~> (env.is_done /\ CountsAtDone)

RECURSIVE FirstAdditions(_)
\* The destinations in the order in which they were first added.
FirstAdditions(added) ==
    IF added = <<>> THEN <<>>
    ELSE LET before == FirstAdditions(SubSeq(added, 1, Len(added) - 1))
             dest == added[Len(added)]
         IN  IF \E i \in 1..Len(before) : before[i] = dest
             THEN before ELSE Append(before, dest)

\* C24: a send on a port calls the destinations in the order in which they
\* were added, and two runs given the same additions and messages make the
\* same sequence of calls.
C24_CallsInOrderAdded ==
    /\ \A r \in 1..2 :
         [i \in 1..Len(gates.lastSend.calls[r]) |-> gates.lastSend.calls[r][i][1]]
             = FirstAdditions(gates.lastSend.added)
    /\ gates.calls[1] = gates.calls[2]

\* C25: when a reception completes, the bit errors counted are the sum over
\* the maximal intervals between consecutive power changes of the bit error
\* rate of the interval times its length times the bit rate in force, each
\* interval counted once, rounded once at completion.
C25_BitErrorsSummedPiecewise ==
    reception.phase = "done" =>
        /\ reception.since = reception.stopTime
        /\ reception.bitErrorSum = reception.expected
        /\ reception.rounded = PyRound(reception.expected)

RECURSIVE SumOver(_, _)
\* The sum of f over the set S.
SumOver(f, S) ==
    IF S = {} THEN 0
    ELSE LET x == CHOOSE y \in S : TRUE IN f[x] + SumOver(f, S \ {x})

\* The transmissions of other devices that have been announced to the layer
\* and have not completed.
AnnouncedOthers ==
    {t \in DOMAIN radio.txs \ Own(radio) : radio.txs[t].announced /\ ~radio.txs[t].ended}

\* C26: the total received power is the thermal noise power plus the
\* received powers recorded for the announced, not yet completed
\* transmissions of other devices; the layer's own transmission is never
\* among them.
C26_ReceivedPowerIsNoisePlusOthers ==
    /\ DOMAIN radio.transmissionToReceivedPowerDict = AnnouncedOthers
    /\ radio.receivedPower = radio.thermalNoisePower
           + SumOver(radio.transmissionToReceivedPowerDict, AnnouncedOthers)

\* The layer's own transmission and one of another device are on the band,
\* both announced, and an attenuation has changed.
C26_Witness ==
    /\ radio.transmitting
    /\ radio.txs[radio.currentTransmission].announced
    /\ AnnouncedOthers # {}
    /\ radio.attenuationChanges = 1
    /\ radio.receivedPower > radio.thermalNoisePower + 1

\* The own transmissions that are on the band.
OwnActive == {t \in Own(radio) : ~radio.txs[t].ended}

\* C27: SEND commands are processed one at a time in the order of arrival;
\* a command's transmission starts on a time slot boundary at or after the
\* arrival; the device is marked transmitting from the start of a
\* transmission to its stop; a command turns processed only at the stop of
\* its transmission; never are two own transmissions on the band.
C27_SendsOneAtATimeInOrder ==
    /\ \A c \in DOMAIN radio.cmds :
         LET cmd == radio.cmds[c]
         IN  /\ cmd.tx # 0 =>
                   /\ radio.txs[cmd.tx].sender = "self"
                   /\ radio.txs[cmd.tx].startTime % RadioSlotTicks = 0
                   /\ radio.txs[cmd.tx].startTime >= cmd.arrived
                   /\ \A b \in 1..(c - 1) :
                        /\ radio.cmds[b].processed
                        /\ radio.cmds[b].processedAt <= radio.txs[cmd.tx].startTime
             /\ cmd.processed =>
                   /\ cmd.tx # 0
                   /\ radio.txs[cmd.tx].ended
                   /\ cmd.processedAt = radio.txs[cmd.tx].stopTime
    /\ radio.transmitting <=> OwnActive # {}
    /\ Cardinality(OwnActive) <= 1
    /\ Cardinality(Own(radio)) = Cardinality({c \in DOMAIN radio.cmds : radio.cmds[c].tx # 0})

\* Two SEND commands arrived at time 0, the second while the first was
\* being handled; both have been processed, one after the other.
C27_Witness ==
    /\ Len(radio.cmds) = 2
    /\ radio.cmds[1].arrived = 0
    /\ radio.cmds[2].arrived = 0
    /\ radio.cmds[1].processed
    /\ radio.cmds[2].processed
    /\ radio.cmds[1].processedAt <= radio.txs[radio.cmds[2].tx].startTime

\* C28: a frame is never sent up on the mac port if the layer's own device
\* was transmitting at any time between the frame's start and completion.
C28_NoDeliveryWhenSentMeanwhile ==
    \A t \in DOMAIN radio.txs :
        radio.txs[t].state = "sent" => ~radio.txs[t].sentMeanwhile

\* The device holds a grant that has not expired.
HoldsGrant(d) == polled.dev[d].grant # None /\ ~polled.dev[d].grant.processed

\* C29: the resource manager serves one ASSIGN message at a time; a granted
\* device's transmission is over before the next announcement starts; the
\* grants of two devices never overlap; a data frame is never on the channel
\* together with an announcement or with another device's data frame.
C29_GrantsAndFramesNeverOverlap ==
    /\ polled.tx[rrmAddr] # None => polled.rrm.pc = "send"
    /\ \A d \in DeviceAddrs :
         /\ (HoldsGrant(d) \/ polled.tx[d] # None \/ Len(polled.dev[d].phyOut) > 0) =>
               /\ polled.rrm.pc = "guard"
               /\ polled.rrm.turn = d
               /\ polled.tx[rrmAddr] = None
         /\ HoldsGrant(d) => ~HoldsGrant(Peer(d))
    /\ \A s \in Stations :
         /\ polled.tx[s] # None => ~polled.tx[s].collided
         /\ OnAir(polled.tx, s) => \A r \in Stations \ {s} : ~OnAir(polled.tx, r)

\* A device's data frame is on the channel in its last tick while the grant
\* has expired and the resource manager still waits.
C29_Witness ==
    \E d \in DeviceAddrs :
        /\ OnAir(polled.tx, d)
        /\ polled.dev[d].grant # None
        /\ polled.dev[d].grant.processed
        /\ polled.rrm.pc = "guard"
        /\ Len(polled.received[d]) > 0

\* The device hands a packet to its physical layer in this step.
HandsOver(d) == Len(polled'.dev[d].phyOut) > Len(polled.dev[d].phyOut)

\* C30: a SimpleMac hands a packet to the physical layer only while it holds
\* a grant whose time left is greater than the packet's transmission time;
\* with an empty queue it waits; once the first queued packet does not fit it
\* hands over nothing until the grant has expired.
C30_HandsOverOnlyWhatFits ==
    [][\A d \in DeviceAddrs :
         LET m == polled.dev[d]
             n == polled'.dev[d]
         IN  /\ HandsOver(d) =>
                   /\ n.grant # None
                   /\ ~n.grant.processed
                   /\ n.grant.left > n.phyOut[Len(n.phyOut)].ticks
                   /\ Len(n.phyOut) = 1
             /\ (m.grant # None /\ m.grant.pc = "wait") =>
                   /\ m.packetQueue = <<>>
                   /\ m.phyOut = <<>>
             /\ (m.grant # None /\ m.grant.pc = "idle") =>
                   /\ ~HandsOver(d)
                   /\ m.packetQueue # <<>>
                   /\ ~(m.grant.left > Head(m.packetQueue).ticks)
                   /\ (n.grant # None => n.grant.pc = "idle")
    ]_vars

\* A device idles with a packet queued that does not fit into the rest of its
\* grant, after a packet of it that did fit has reached the peer's receiver.
C30_Witness ==
    \E d \in DeviceAddrs :
        /\ HoldsGrant(d)
        /\ polled.dev[d].grant.pc = "idle"
        /\ polled.dev[d].grant.left > 0
        /\ Len(polled.dev[d].packetQueue) > 0
        /\ \E i \in 1..Len(polled.received[Peer(d)]) :
             polled.received[Peer(d)][i] # None /\ polled.received[Peer(d)][i][1] = d


\* ------------------------------------------------------------------ C31

\* The payloads of a list of packets.
PayloadsOf(packets) == [k \in 1..Len(packets) |-> packets[k].payload]

\* The packets submitted so far that have not been lost: those the physical
\* layer has transmitted, the one it is transmitting, and those still queued.
QueueKept ==
    mac.handed \o PayloadsOf(mac.layer.phyOut) \o PayloadsOf(mac.layer.packetQueue)

\* C31 as stated: the packets submitted on the transport port are handed to
\* the physical layer in submission order and none is discarded, however many
\* are submitted between two grants.
C31_NoneDiscarded == QueueKept = [k \in 1..mac.submitted |-> k]

\* C31, amended: packets are handed over in submission order; a packet
\* submitted while fewer than 100 are queued displaces none, one submitted
\* while 100 are queued displaces the oldest queued one, and nothing else
\* ever removes a packet.
C31_OldestDisplacedWhenFull ==
    [][LET kept == mac.handed \o PayloadsOf(mac.layer.phyOut)
           waiting == PayloadsOf(mac.layer.packetQueue)
       IN  IF mac'.submitted = mac.submitted + 1
           THEN IF Len(waiting) < PacketQueueMaxLen
                THEN QueueKept' = Append(kept \o waiting, mac'.submitted)
                ELSE QueueKept' = Append(kept \o Tail(waiting), mac'.submitted)
           ELSE QueueKept' = QueueKept]_vars

\* A packet has been displaced, and a later grant has handed over the packet
\* submitted after it.
C31_Witness ==
    /\ mac.submitted > PacketQueueMaxLen
    /\ mac.handed # <<>>
    /\ mac.handed[Len(mac.handed)] = 2
    /\ 1 \notin {mac.handed[k] : k \in 1..Len(mac.handed)}


\* ------------------------------------------------------------------ C32

\* While the sending process runs, no packet from the physical layer changes
\* the schedule it serves or starts the process anew.
TransmitWindowKeepsSchedule ==
    [][~sensor.receiving =>
          /\ sensor'.schedule = sensor.schedule
          /\ sensor'.lastGatewayClock = sensor.lastGatewayClock
          /\ Len(sensor'.sent) >= Len(sensor.sent)]_vars

\* C32: a sensor MAC serves one schedule at a time, ignoring every packet
\* from the physical layer while it is in its transmit window, and after
\* every accepted schedule it eventually returns to receiving mode.
C32_ReturnsToReceiving == (~sensor.receiving) ~> sensor.receiving


\* ------------------------------------------------------------------ C33

\* The slots of one turn of device d.
Turn(d) == IF d \in actuators THEN <<<<d, 1>>, <<d, 0>>>> ELSE <<<<d, 0>>>>

RECURSIVE TurnsFrom(_, _)
\* The slots of n successive turns, the first one of the device at position k,
\* counting on cyclically through the device list.
TurnsFrom(k, n) ==
    IF n = 0 THEN <<>>
    ELSE Turn(devices[(k % Len(devices)) + 1]) \o TurnsFrom(k + 1, n - 1)

\* C33: the concatenation of all schedules generated so far consists of the
\* turns of the devices in list order, cyclically, an actuator's turn being
\* two consecutive slots flagged 1 then 0 (also across two schedules) and any
\* other device's turn one slot flagged 0.
C33_TurnsInListOrder ==
    Len(devices) >= 1 =>
        slotLog = SubSeq(TurnsFrom(0, Len(slotLog)), 1, Len(slotLog))

\* An actuator's turn was split between two schedules, in the second round.
C33_Witness ==
    /\ Len(slotLog) >= 2 * timeslots
    /\ Len(slotLog) > Len(devices) + ListedActuators
    /\ slotLog[timeslots][2] = 1
    /\ slotLog[timeslots + 1] = <<slotLog[timeslots][1], 0>>
    /\ \E i \in 1..Len(devices) : devices[i] \notin actuators


\* ------------------------------------------------------------------ C34

\* The elements of a sequence.
Range(f) == {f[k] : k \in DOMAIN f}

\* The receivers and radii whose notifier must hear of a transmission of
\* sender, as the devices stand.
WithinRadius(sender) ==
    {key \in band.inReachNotifiers :
        distanceTo(band.positions[key[1]], band.positions[sender]) <= key[2]}

\* C34: every transmission that transmit has returned is registered as active
\* before any subscriber hears of it; the new-transmission notifier is then
\* triggered exactly once for it, at the simulated time of the call; and the
\* notifier of (receiver, radius) is triggered for it iff the receiver is no
\* farther than radius from the sender.
C34_RegisteredThenNotifiedOnce ==
    /\ [](/\ \A t \in Range(band.pending) :
               /\ t \in Range(band.transmissions)
               /\ \A k \in DOMAIN band.notified : band.notified[k].t # t
          /\ \A t \in Range(band.returned) \ Range(band.pending) :
               \E k \in DOMAIN band.notified :
                  /\ band.notified[k].t = t
                  /\ band.notified[k].newTransmission = 1
                  /\ band.notified[k].time = t.startTime
                  /\ \A j \in DOMAIN band.notified : band.notified[j].t = t => j = k)
    /\ [][band'.notified # band.notified =>
             LET c == band'.notified[Len(band'.notified)]
             IN  /\ band'.notified = Append(band.notified, c)
                 /\ c.inReach = WithinRadius(c.t.id.sender)]_vars

\* A transmission was announced to the other device exactly one radius away,
\* and another one was not announced to it, being farther away.
C34_Witness ==
    /\ \E k \in DOMAIN band.notified :
          LET c == band.notified[k]
          IN  \E key \in c.inReach : key[1] # c.t.id.sender
    /\ \E k \in DOMAIN band.notified :
          LET c == band.notified[k]
          IN  /\ c.inReach # {}
              /\ \A key \in c.inReach : key[1] = c.t.id.sender
    /\ Cardinality(band.inReachNotifiers) = 2


\* ------------------------------------------------------------------ C35

\* C35: once a joined model of two or more contributors has been made, and
\* after every update of a contributor, its attenuation is the sum of the
\* current attenuations of its contributors.
C35_JoinedIsSumOfContributors ==
    joined.model # None =>
        /\ "attenuation" \in joined.model.assigned
        /\ joined.model.attenuation = ContributorSum(joined.model)

\* ------------------------------------------------------------------ C36

\* C36: a position change of one device makes the joined model trigger its
\* notifier once, with the new sum, if the sum changed and not at all
\* otherwise; so does an update of a contributor outside a position change.
C36_OneSummedTrigger ==
    (joined.model # None /\ joined.lastOp.op \in {"move", "update"}) =>
        IF ContributorSum(joined.model) = joined.lastOp.before
        THEN joined.model.triggered = <<>>
        ELSE joined.model.triggered = <<ContributorSum(joined.model)>>


\* ------------------------------------------------------------------ C37

RECURSIVE BinomSum(_, _)
\* C(n,0) + ... + C(n,t)
BinomSum(n, t) == IF t < 0 THEN 0 ELSE binom(n, t) + BinomSum(n, t - 1)

\* The largest t with C(n,0) + ... + C(n,t) <= 2^(n-k).
LargestCorrectable(k, n) ==
    CHOOSE t \in 0..n :
        /\ BinomSum(n, t) <= 2 ^ (n - k)
        /\ t < n => BinomSum(n, t + 1) > 2 ^ (n - k)

\* C37: for the code rate k/n, maxCorrectableBer returns t/n where t is the
\* largest integer with C(n,0) + ... + C(n,t) <= 2^(n-k), and a value once
\* computed for a code rate is what every later call returns.
C37_LargestWithinBound ==
    /\ [](phy.last.op = "maxCorrectableBer" =>
            phy.last.value =
                <<LargestCorrectable(phy.last.codeRate[1], phy.last.codeRate[2]),
                  phy.last.codeRate[2]>>)
    /\ [][phy.last.op = "maxCorrectableBer" /\ phy'.last.codeRate \in DOMAIN phy.cache =>
             /\ ~phy'.last.computed
             /\ phy'.last.value = phy.cache[phy'.last.codeRate]
             /\ phy'.cache = phy.cache]_vars

\* What the code returns: one error more than the bound allows.
MaxBerIsOneAboveBound ==
    phy.last.op = "maxCorrectableBer" =>
        phy.last.value =
            <<LargestCorrectable(phy.last.codeRate[1], phy.last.codeRate[2]) + 1,
              phy.last.codeRate[2]>>


\* ------------------------------------------------------------------ C38

\* C38: the compressed encoding of a TDMA schedule is never longer than its
\* uncompressed encoding.
C38_CompressedNotLonger ==
    result.op = "tdma_encode" =>
        IF result.compressed
        THEN result.value <= tdma_encode(schedule, action, FALSE)
        ELSE tdma_encode(schedule, action, TRUE) <= result.value


\* ------------------------------------------------------------------ C39

\* The number last_control_slot stands for.
LastSlotNumber(last) == IF "int" \in DOMAIN last THEN last.int ELSE StrToInt(last.str)

\* The entries of the schedule the call was made on that are assigned to an
\* actuator and start after slot last, by their position in the schedule.
ControlEntriesAfter(sched, last) ==
    {k \in 1..(Len(sched) - 1) :
        /\ \E a \in actuators : Str(a) = sched[k][2]
        /\ StrToInt(sched[k][1]) > last}

\* C39: get_next_control_slot(last) returns the start slot and the address of
\* the first entry of the current schedule that is assigned to an actuator
\* and starts after slot last, compared as numbers, and None if there is no
\* such entry.
C39_NextActuatorEntry ==
    result.op = "get_next_control_slot" =>
        LET after == ControlEntriesAfter(result.schedule,
                                         LastSlotNumber(result.last_control_slot))
        IN  /\ ~result.raised
            /\ IF after = {}
               THEN result.value = None
               ELSE LET k == Nth(after, 1)
                    IN  /\ result.value # None
                        /\ result.value = <<result.schedule[k][1], result.schedule[k][2]>>


\* ------------------------------------------------------------------ C40

\* C40: every observation of the interpreter lies in 0 .. 2*COUNTER_BOUND - 1,
\* the observation space of the environment, and every counter value a sender
\* sends is below COUNTER_BOUND, so that it fits in COUNTER_BYTE_LENGTH bytes.
C40_ObservationAndCountersInRange ==
    /\ counter.lastOp.op \in {"getObservation", "reset"} =>
          counter.lastOp.value \in 0..(2 * COUNTER_BOUND - 1)
    /\ \A i \in 1..2 : \A value \in counter.senders[i].sent : value < COUNTER_BOUND

\* The observation alone is within the space only while no sender's value
\* COUNTER_BOUND has been received.
C40_ObservationInRange ==
    counter.lastOp.op \in {"getObservation", "reset"} =>
        counter.lastOp.value \in 0..(2 * COUNTER_BOUND - 1)

====
